---- MODULE Spec2Model ----
(***************************************************************************)
(* Model of the text-to-3D generation pipeline of ThreeAI:                 *)
(*   - the keyword lexicon and the procedural synthesizers                 *)
(*     (main.js, ai-integration.js),                                       *)
(*   - the prebuilt asset resolver (utils/helpers.js),                     *)
(*   - the generation orchestrator tryAIGeneration and its result cache    *)
(*     (main.js, ai-integration.js),                                       *)
(*   - the UI entry point generateGeometry (main.js).                      *)
(*                                                                         *)
(* Prompts are JavaScript strings and are modelled as TLA+ strings; the    *)
(* string functions the code uses (toLowerCase, split, trim, includes)     *)
(* are computed character by character.  JavaScript values of mixed type   *)
(* (numbers, functions, undefined) are written as strings so that they     *)
(* can be compared.                                                        *)
(***************************************************************************)
EXTENDS Integers, Sequences, FiniteSets, TLC

(***************************************************************************)
(* Bounds of the model.                                                    *)
(***************************************************************************)
MaxWords == 4
MaxMatchWords == 2
MaxProceduralWords == 2
MaxCacheCalls == 52
MaxHits == 3
MaxTime == 1
MaxGenCalls == 3
MaxAppCalls == 3
(* loadModel calls made on one GLBModelLibrary *)
MaxLoadCalls == 3
(* generate3DModel calls made on one HuggingFaceService, and how far the   *)
(* clock advances, in half request intervals                               *)
MaxHfCalls == 2
MaxHfTicks == 3
(* words of a prompt given to convertImageTo3D *)
MaxConvertWords == 2
(* executeGeneration calls made on one UsageManager *)
MaxUmCalls == 2
(* generateGeometry calls that are pending at the same time *)
MaxPending == 2
(* animation frames the browser runs, and how far its clock advances, in   *)
(* half durations of the entrance animation                               *)
MaxFrames == 4
MaxAnimTicks == 4
(* HuggingFaceService objects constructed *)
MaxServices == 2
(* clearCache calls made on one GLBModelLibrary *)
MaxClears == 1

(***************************************************************************)
(* State.                                                                  *)
(*                                                                         *)
(* lg*: one legacyProceduralGeneration call: its argument, its local       *)
(*      variables and the meshes it has added to the scene.                *)
(* fm*: one findBestMatch call: its argument and its return value.         *)
(* pr*: the procedural synthesis of one prompt: the shapes extractShapes   *)
(*      returned and the result of generateProceduralModel.                *)
(* heap: the THREE objects that exist; an object is known by its index.    *)
(*      position is the object's own field, res names the geometry and     *)
(*      material, which clone() shares with the original.                  *)
(* scene, objects: this.scene's generated children and this.objects.       *)
(* disposed: the geometries and materials dispose() was called on.         *)
(* modelCache: the Map of AIModelGenerator in insertion order; now is      *)
(*      Date.now().                                                        *)
(* try*: one tryAIGeneration call; abandoned holds the strategies whose    *)
(*      promise lost the race against the timeout and is still pending.    *)
(* ui*, ug*: the prompt input, the AI toggle, the token manager and one    *)
(*      generateGeometry call; ugModel is the model the call holds.        *)
(* glbModelCache, loadingPromises: the two Maps of GLBModelLibrary;        *)
(*      promises are the load promises created so far (a pending one is a  *)
(*      fetch in flight), glbObjects the asset scenes and their clones,    *)
(*      loadCalls the loadModel calls made so far.                         *)
(* hfNow, lastRequestTime, requestCount: Date.now() and the two fields of  *)
(*      one HuggingFaceService; hfCalls are its generate3DModel calls and  *)
(*      hfSent the times at which a request left for the inference API.    *)
(* cv*: one convertImageTo3D call: its prompt, the state of the promise it *)
(*      returned and the value the promise resolved to.                    *)
(* loggedIn, freeGenerationUsed, dbUsage: whether SupabaseAuth has a user, *)
(*      the localStorage item 'free_generation_used' and the user's row of *)
(*      the user_usage table; umCalls are the executeGeneration calls.     *)
(* ggCalls: the generateGeometry calls started from the keyboard or the    *)
(*      history list, which may be pending together.                       *)
(* animStart, animNow, animProgress, frames: the start time of the         *)
(*      entrance animation of the newest mesh, Date.now(), the progress of *)
(*      the animation in percent and the animation frames run so far.      *)
(* storedToken, hfTokenItem: the localStorage items 'user_hf_token' (the   *)
(*      key of HFTokenManager) and 'hf_token'; hasToken above is the field *)
(*      of HFTokenManager.  givenToken, apiToken, consulted, authorization *)
(*      and services: the argument of the newest HuggingFaceService, its   *)
(*      apiToken, whether its construction read the token sources, the     *)
(*      Authorization header of its last request, and the services made.   *)
(* clearedLoads, clears: the load promises that were pending at a          *)
(*      clearCache call, and the clearCache calls made.                    *)
(* hitTimes: for every prompt getCachedModel found, Date.now() of the      *)
(*      most recent hit.                                                   *)
(***************************************************************************)
VARIABLES lgPrompt, lgPc, lgShapes, lgColors, lgIndex, lgObjects,
          fmPrompt, fmPc, fmResult,
          prPrompt, prPc, prShapes, prModel,
          heap, scene, objects, disposed, history, usage, notification,
          modelCache, now, strategyCalls, networkRequests, gateChecks, calls,
          tryPc, tryPrompt, tryIdx, tryAttempted, tryResult, tryHit, tryElapsed,
          tryPlan, abandoned,
          uiPrompt, useHF, hasToken, ugPc, ugPrompt, ugPlan, ugModel,
          glbModelCache, loadingPromises, promises, glbObjects, loadCalls,
          hfNow, lastRequestTime, requestCount, hfCalls, hfSent,
          cvPrompt, cvPc, cvResult,
          loggedIn, freeGenerationUsed, dbUsage, umCalls,
          ggCalls,
          hitTimes,
          animStart, animNow, animProgress, frames,
          storedToken, hfTokenItem, givenToken, apiToken, consulted, authorization,
          services,
          clearedLoads, clears

lgVars == <<lgPrompt, lgPc, lgShapes, lgColors, lgIndex, lgObjects>>
fmVars == <<fmPrompt, fmPc, fmResult>>
prVars == <<prPrompt, prPc, prShapes, prModel>>

(* the application: THREE objects, scene, history, usage, notifications *)
appVars == <<heap, scene, objects, disposed, history, usage, notification>>
(* AIModelGenerator.modelCache, the clock, and counters of what was called *)
genVars == <<modelCache, now, strategyCalls, networkRequests, gateChecks, calls>>
(* one tryAIGeneration call *)
tryVars == <<tryPc, tryPrompt, tryIdx, tryAttempted, tryResult, tryHit, tryElapsed,
             tryPlan, abandoned>>
(* the prompt input, the AI toggle, the token, one generateGeometry call *)
uiVars == <<uiPrompt, useHF, hasToken, ugPc, ugPrompt, ugPlan, ugModel>>
(* one GLBModelLibrary *)
libVars == <<glbModelCache, loadingPromises, promises, glbObjects, loadCalls>>
(* the services the application holds beside the generator *)
(* one HuggingFaceService and the requests it sent *)
hfVars == <<hfNow, lastRequestTime, requestCount, hfCalls, hfSent>>
(* one convertImageTo3D call *)
cvVars == <<cvPrompt, cvPc, cvResult>>
(* one UsageManager with its SupabaseAuth *)
umVars == <<loggedIn, freeGenerationUsed, dbUsage, umCalls>>
(* generateGeometry calls in flight together *)
ovVars == <<ggCalls>>
(* the groups added to the services *)
(* when the entries of the result cache were last hit *)
evVars == <<hitTimes>>
(* the entrance animation of createObject *)
animVars == <<animStart, animNow, animProgress, frames>>
(* the token stores and the newest HuggingFaceService *)
tokVars == <<storedToken, hfTokenItem, givenToken, apiToken, consulted, authorization,
             services>>
(* the loads that were in flight when clearCache ran *)
clVars == <<clearedLoads, clears>>
restVars == <<ovVars, evVars, animVars, tokVars, clVars>>
svcVars == <<libVars, hfVars, cvVars, umVars, restVars>>

vars == <<lgVars, fmVars, prVars, appVars, genVars, tryVars, uiVars, svcVars>>

(* the variables outside each group *)
notLg == <<fmVars, prVars, appVars, genVars, tryVars, uiVars, svcVars>>
notFm == <<lgVars, prVars, appVars, genVars, tryVars, uiVars, svcVars>>
notPr == <<lgVars, fmVars, appVars, genVars, tryVars, uiVars, svcVars>>
coreVars == <<lgVars, fmVars, prVars, appVars, genVars, tryVars, uiVars>>
notLib == <<coreVars, hfVars, cvVars, umVars, restVars>>
notHf == <<coreVars, libVars, cvVars, umVars, restVars>>
notCv == <<coreVars, libVars, hfVars, umVars, restVars>>
notUm == <<coreVars, libVars, hfVars, cvVars, restVars>>
svcBase == <<libVars, hfVars, cvVars, umVars>>
(* the groups no action of the generator or of the application touches *)
lexVars == <<lgVars, fmVars, prVars, svcVars>>

(***************************************************************************)
(* JavaScript values.                                                      *)
(***************************************************************************)
Undefined == "undefined"
Null == "null"

(* a prompt argument is a string unless the caller passed undefined or null *)
IsString(v) == v # Undefined /\ v # Null

(* Properties every object literal inherits from Object.prototype: a      *)
(* lookup map[word] finds them when word is not an own key of the map.    *)
ObjectPrototypeKeys ==
    {"constructor", "__proto__", "toString", "valueOf", "hasOwnProperty"}

InheritedValue(key) ==
    IF key = "__proto__" THEN "[Object.prototype]" ELSE "[function " \o key \o "]"

(* map[key] for an object literal given as a sequence of <<key, value>>   *)
(* pairs in insertion order.                                               *)
RECURSIVE OwnValue(_, _, _)
OwnValue(map, key, i) ==
    IF i > Len(map) THEN Undefined
    ELSE IF map[i][1] = key THEN map[i][2]
    ELSE OwnValue(map, key, i + 1)

HasOwn(map, key) == \E i \in 1..Len(map) : map[i][1] = key

Lookup(map, key) ==
    IF HasOwn(map, key) THEN OwnValue(map, key, 1)
    ELSE IF key \in ObjectPrototypeKeys THEN InheritedValue(key)
    ELSE Undefined

Truthy(v) == v # Undefined /\ v # Null /\ v # ""

(***************************************************************************)
(* String functions.                                                       *)
(***************************************************************************)
UpperCaseLetters == "ABCDEFGHIJKLMNOPQRSTUVWXYZ"
LowerCaseLetters == "abcdefghijklmnopqrstuvwxyz"

CharAt(s, i) == SubSeq(s, i, i)

LowerChar(c) ==
    IF \E k \in 1..26 : CharAt(UpperCaseLetters, k) = c
    THEN CharAt(LowerCaseLetters, CHOOSE k \in 1..26 : CharAt(UpperCaseLetters, k) = c)
    ELSE c

RECURSIVE ToLowerFrom(_, _)
ToLowerFrom(s, i) ==
    IF i > Len(s) THEN "" ELSE LowerChar(CharAt(s, i)) \o ToLowerFrom(s, i + 1)

(* String.prototype.toLowerCase *)
toLowerCase(s) == ToLowerFrom(s, 1)

RECURSIVE SplitFrom(_, _, _, _)
SplitFrom(s, i, cur, acc) ==
    IF i > Len(s) THEN Append(acc, cur)
    ELSE IF CharAt(s, i) = " " THEN SplitFrom(s, i + 1, "", Append(acc, cur))
    ELSE SplitFrom(s, i + 1, cur \o CharAt(s, i), acc)

(* String.prototype.split(' '): one piece per separator, empty pieces kept *)
split(s) == SplitFrom(s, 1, "", <<>>)

(* String.prototype.includes *)
includes(s, sub) ==
    \E i \in 1..(Len(s) - Len(sub) + 1) : SubSeq(s, i, i + Len(sub) - 1) = sub

RECURSIVE TrimStart(_)
TrimStart(s) ==
    IF Len(s) > 0 /\ CharAt(s, 1) = " " THEN TrimStart(SubSeq(s, 2, Len(s))) ELSE s

RECURSIVE TrimEnd(_)
TrimEnd(s) ==
    IF Len(s) > 0 /\ CharAt(s, Len(s)) = " " THEN TrimEnd(SubSeq(s, 1, Len(s) - 1)) ELSE s

(* the prompt taken as it was typed *)
trimSkipped(s) == s

(* String.prototype.trim *)
trim(s) == TrimEnd(TrimStart(s))

(* Array.prototype.includes on a sequence of words *)
ArrayIncludes(words, w) == \E i \in 1..Len(words) : words[i] = w

(* the words the procedural code works on: prompt.toLowerCase().split(' ') *)
WordsOf(prompt) == split(toLowerCase(prompt))

(***************************************************************************)
(* Keyword lexicon of the legacy procedural generator (main.js).           *)
(***************************************************************************)
shapeMap ==
    << <<"cube", "cube">>, <<"box", "cube">>, <<"sphere", "sphere">>,
       <<"ball", "sphere">>, <<"cylinder", "cylinder">>, <<"cone", "cone">>,
       <<"pyramid", "pyramid">>, <<"torus", "torus">>, <<"donut", "torus">>,
       <<"plane", "plane">>, <<"circle", "circle">> >>

colorMap ==
    << <<"red", "0xff4444">>, <<"blue", "0x4444ff">>, <<"green", "0x44ff44">>,
       <<"yellow", "0xffff44">>, <<"orange", "0xff8844">>, <<"purple", "0xff44ff">>,
       <<"pink", "0xff88ff">>, <<"white", "0xffffff">>, <<"black", "0x444444">>,
       <<"gray", "0x888888">>, <<"grey", "0x888888">>, <<"brown", "0x8b4513">>,
       <<"gold", "0xffd700">>, <<"silver", "0xc0c0c0">> >>

(* getRandomColor: Math.random picks one entry of the palette *)
RandomColors ==
    {"0xff6b6b", "0x4ecdc4", "0x45b7d1", "0x96ceb4", "0xffeaa7", "0xdda0dd", "0x98d8c8"}

RECURSIVE ExtractShapesFrom(_, _)
ExtractShapesFrom(words, i) ==
    IF i > Len(words) THEN <<>>
    ELSE IF Truthy(Lookup(shapeMap, words[i]))
         THEN <<Lookup(shapeMap, words[i])>> \o ExtractShapesFrom(words, i + 1)
         ELSE ExtractShapesFrom(words, i + 1)

extractShapes(words) ==
    LET shapes == ExtractShapesFrom(words, 1)
    IN  IF Len(shapes) > 0 THEN shapes ELSE <<"cube">>

RECURSIVE ExtractColorsFrom(_, _)
ExtractColorsFrom(words, i) ==
    IF i > Len(words) THEN <<>>
    ELSE IF Lookup(colorMap, words[i]) # Undefined
         THEN <<Lookup(colorMap, words[i])>> \o ExtractColorsFrom(words, i + 1)
         ELSE ExtractColorsFrom(words, i + 1)

extractColors(words) == ExtractColorsFrom(words, 1)

(* extractPositions always returns the empty list *)
extractPositions(words) == <<>>

(* the geometry createObject builds for a shape: the switch statement *)
ObjectGeometry(shape) ==
    CASE shape = "cube" -> "BoxGeometry(1,1,1)"
      [] shape = "sphere" -> "SphereGeometry(0.6,32,32)"
      [] shape = "cylinder" -> "CylinderGeometry(0.5,0.5,1,32)"
      [] shape = "cone" -> "ConeGeometry(0.5,1,32)"
      [] shape = "pyramid" -> "ConeGeometry(0.5,1,4)"
      [] shape = "torus" -> "TorusGeometry(0.6,0.2,16,100)"
      [] shape = "plane" -> "PlaneGeometry(2,2)"
      [] shape = "circle" -> "CircleGeometry(0.8,32)"
      [] OTHER -> "BoxGeometry(1,1,1)"

(* the mesh createObject adds to the scene *)
createObject(shape, color, position) ==
    [geometry |-> ObjectGeometry(shape), color |-> color,
     x |-> position.x, y |-> position.y, z |-> position.z]

(* position of object objectIndex (0-based) of n when the prompt gives    *)
(* none: x = (objectIndex - n / 2) * spacing with spacing = 2             *)
LegacyPosition(objectIndex, n) == [x |-> 2 * objectIndex - n, y |-> 1, z |-> 0]

(***************************************************************************)
(* Prompts of at most n words of a vocabulary, joined by single spaces.    *)
(* A vocabulary that holds the empty word also yields the empty prompt and *)
(* prompts with leading, trailing and doubled spaces.                      *)
(***************************************************************************)
RECURSIVE PromptsOfLength(_, _)
PromptsOfLength(vocabulary, n) ==
    IF n = 1 THEN vocabulary
    ELSE {p \o " " \o w : p \in PromptsOfLength(vocabulary, n - 1), w \in vocabulary}

PromptsUpTo(vocabulary, n) == UNION {PromptsOfLength(vocabulary, k) : k \in 1..n}

(***************************************************************************)
(* legacyProceduralGeneration (main.js)                                    *)
(***************************************************************************)
LegacyVocabulary == {"red", "blue", "cube", "sphere", "constructor"}

LegacyPrompts == PromptsUpTo(LegacyVocabulary, MaxWords)

LegacyIdle ==
    /\ lgPrompt = ""
    /\ lgPc = "idle"
    /\ lgShapes = <<>>
    /\ lgColors = <<>>
    /\ lgIndex = 0
    /\ lgObjects = <<>>

(* createDefaultScene: three fixed objects *)
createDefaultScene ==
    << createObject("cube", "0xff6b6b", [x |-> -2, y |-> 1, z |-> 0]),
       createObject("sphere", "0x4ecdc4", [x |-> 0, y |-> 1, z |-> 0]),
       createObject("cylinder", "0x45b7d1", [x |-> 2, y |-> 1, z |-> 0]) >>

(* legacyProceduralGeneration up to the loop: the prompt is split into    *)
(* words and the shapes and colors are extracted                          *)
LegacyStart ==
    /\ lgPc = "call"
    /\ lgShapes' = extractShapes(WordsOf(lgPrompt))
    /\ lgColors' = extractColors(WordsOf(lgPrompt))
    /\ lgIndex' = 0
    /\ lgPc' = "loop"
    /\ UNCHANGED <<lgPrompt, lgObjects>>
    /\ UNCHANGED notLg

(* one iteration of the loop: colors[objectIndex] || getRandomColor(),    *)
(* positions[objectIndex] || default position, await createObject         *)
LegacyCreateObject ==
    /\ lgPc = "loop"
    /\ lgIndex < Len(lgShapes)
    /\ \E random \in RandomColors :
         LET color == IF lgIndex < Len(lgColors) /\ Truthy(lgColors[lgIndex + 1])
                      THEN lgColors[lgIndex + 1] ELSE random
             positions == extractPositions(WordsOf(lgPrompt))
             position == IF lgIndex < Len(positions) THEN positions[lgIndex + 1]
                         ELSE LegacyPosition(lgIndex, Len(lgShapes))
         IN  lgObjects' = Append(lgObjects, createObject(lgShapes[lgIndex + 1], color, position))
    /\ lgIndex' = lgIndex + 1
    /\ UNCHANGED <<lgPrompt, lgPc, lgShapes, lgColors>>
    /\ UNCHANGED notLg

(***************************************************************************)
(* createObject with its entrance animation.  createObject returns a       *)
(* promise whose resolve is handed to animateScaleUp as the callback.      *)
(* animate() runs once at once, and again in every animation frame until   *)
(* elapsed / duration reaches 1; only then it calls the callback.  The     *)
(* browser runs animation frames while the page is shown.                  *)
(***************************************************************************)
AnimDuration == 500

(* Math.min(elapsed / duration, 1), in percent *)
AnimProgress(elapsed) ==
    IF elapsed >= AnimDuration THEN 100 ELSE (elapsed * 100) \div AnimDuration

(* Date.now() moves on by half a duration *)
AnimClockAdvances ==
    /\ animNow < MaxAnimTicks * (AnimDuration \div 2)
    /\ animNow' = animNow + (AnimDuration \div 2)
    /\ UNCHANGED <<animStart, animProgress, frames>>
    /\ UNCHANGED <<coreVars, svcBase, ovVars, evVars, tokVars, clVars>>

(* one iteration of the loop up to its await: the mesh is made, added to   *)
(* the scene at scale 0.1, and animate() runs for the first time with      *)
(* elapsed = 0 and requests a frame                                        *)
CreateObjectCall ==
    /\ lgPc = "loop"
    /\ lgIndex < Len(lgShapes)
    /\ \E random \in RandomColors :
         LET color == IF lgIndex < Len(lgColors) /\ Truthy(lgColors[lgIndex + 1])
                      THEN lgColors[lgIndex + 1] ELSE random
             positions == extractPositions(WordsOf(lgPrompt))
             position == IF lgIndex < Len(positions) THEN positions[lgIndex + 1]
                         ELSE LegacyPosition(lgIndex, Len(lgShapes))
         IN  lgObjects' = Append(lgObjects, createObject(lgShapes[lgIndex + 1], color, position))
    /\ animStart' = animNow
    /\ animProgress' = AnimProgress(0)
    /\ lgPc' = "animating"
    /\ UNCHANGED <<lgPrompt, lgShapes, lgColors, lgIndex, animNow, frames>>
    /\ UNCHANGED <<fmVars, prVars, appVars, genVars, tryVars, uiVars>>
    /\ UNCHANGED <<svcBase, ovVars, evVars, tokVars, clVars>>

(* the browser runs the requested frame: animate() sets the scale; below   *)
(* full progress it requests the next frame, at full progress it calls the *)
(* callback, the promise of createObject resolves and the loop goes on     *)
AnimationFrame ==
    /\ lgPc = "animating"
    /\ frames < MaxFrames
    /\ frames' = frames + 1
    /\ animProgress' = AnimProgress(animNow - animStart)
    /\ IF AnimProgress(animNow - animStart) < 100
       THEN UNCHANGED <<lgPc, lgIndex>>
       ELSE /\ lgPc' = "loop"
            /\ lgIndex' = lgIndex + 1
    /\ UNCHANGED <<lgPrompt, lgShapes, lgColors, lgObjects, animStart, animNow>>
    /\ UNCHANGED <<fmVars, prVars, appVars, genVars, tryVars, uiVars>>
    /\ UNCHANGED <<svcBase, ovVars, evVars, tokVars, clVars>>

(* after the loop: the default scene when no shape was found *)
LegacyFinish ==
    /\ lgPc = "loop"
    /\ lgIndex = Len(lgShapes)
    /\ lgObjects' = IF Len(lgShapes) = 0 THEN lgObjects \o createDefaultScene ELSE lgObjects
    /\ lgPc' = "done"
    /\ UNCHANGED <<lgPrompt, lgShapes, lgColors, lgIndex>>
    /\ UNCHANGED notLg

(***************************************************************************)
(* Prebuilt asset resolver: GLBModelLibrary (utils/helpers.js).            *)
(***************************************************************************)
modelMap ==
    << <<"horse", "Horse.glb">>, <<"parrot", "Parrot.glb">>,
       <<"flamingo", "Flamingo.glb">>, <<"stork", "Stork.glb">>,
       <<"bird", "Parrot.glb">>, <<"animal", "Horse.glb">>,
       <<"car", "ferrari.glb">>, <<"ferrari", "ferrari.glb">>,
       <<"vehicle", "ferrari.glb">>, <<"sports car", "ferrari.glb">>,
       <<"robot", "RobotExpressive.glb">>, <<"soldier", "Soldier.glb">>,
       <<"character", "RobotExpressive.glb">>, <<"person", "Soldier.glb">>,
       <<"human", "Soldier.glb">>, <<"droid", "RobotExpressive.glb">>,
       <<"android", "RobotExpressive.glb">>,
       <<"helmet", "DamagedHelmet.glb">>, <<"armor", "DamagedHelmet.glb">>,
       <<"sculpture", "DamagedHelmet.glb">> >>

(* first word with a truthy modelMap[word], 0 when there is none *)
RECURSIVE DirectMatchFrom(_, _)
DirectMatchFrom(words, i) ==
    IF i > Len(words) THEN 0
    ELSE IF Truthy(Lookup(modelMap, words[i])) THEN i
    ELSE DirectMatchFrom(words, i + 1)

(* first entry of modelMap whose keyword some word includes or is         *)
(* included in, 0 when there is none                                      *)
RECURSIVE PartialMatchFrom(_, _)
PartialMatchFrom(words, k) ==
    IF k > Len(modelMap) THEN 0
    ELSE IF \E i \in 1..Len(words) :
              includes(words[i], modelMap[k][1]) \/ includes(modelMap[k][1], words[i])
         THEN k
    ELSE PartialMatchFrom(words, k + 1)

AnimalWords == {"animal", "creature", "pet"}
VehicleWords == {"vehicle", "transport", "machine"}
CharacterWords == {"person", "people", "human", "character"}

findBestMatch(prompt) ==
    LET words == WordsOf(prompt)
        direct == DirectMatchFrom(words, 1)
        partial == PartialMatchFrom(words, 1)
    IN  IF direct # 0 THEN Lookup(modelMap, words[direct])
        ELSE IF partial # 0 THEN modelMap[partial][2]
        ELSE IF \E i \in 1..Len(words) : words[i] \in AnimalWords THEN "Horse.glb"
        ELSE IF \E i \in 1..Len(words) : words[i] \in VehicleWords THEN "ferrari.glb"
        ELSE IF \E i \in 1..Len(words) : words[i] \in CharacterWords THEN "Soldier.glb"
        ELSE "RobotExpressive.glb"

MatchVocabulary ==
    {"car", "cars", "bot", "person", "pet", "machine", "people", "zzz", "", "Horse",
     "constructor"}

MatchPrompts == PromptsUpTo(MatchVocabulary, MaxMatchWords)

MatchIdle ==
    /\ fmPrompt = ""
    /\ fmPc = "idle"
    /\ fmResult = Undefined

FindBestMatchCall ==
    /\ fmPc = "call"
    /\ fmResult' = findBestMatch(fmPrompt)
    /\ fmPc' = "done"
    /\ UNCHANGED fmPrompt
    /\ UNCHANGED notFm

(***************************************************************************)
(* Basic procedural synthesis: AIModelGenerator.generateProceduralModel    *)
(* (ai-integration.js).  A result is a record: status "returned" with the  *)
(* model, or status "throws".                                              *)
(***************************************************************************)
basicShapeMap ==
    << <<"cube", "BoxGeometry(1,1,1)">>, <<"sphere", "SphereGeometry(0.5,32,32)">>,
       <<"cylinder", "CylinderGeometry(0.5,0.5,1,32)">> >>

basicColorMap ==
    << <<"red", "0xFF4444">>, <<"blue", "0x4444FF">>, <<"green", "0x44FF44">>,
       <<"yellow", "0xFFFF44">> >>

Returned(kind, geometry, color) ==
    [status |-> "returned", kind |-> kind, geometry |-> geometry, color |-> color]

Throws == [status |-> "throws", kind |-> "none", geometry |-> "none", color |-> "none"]

(* index of the first word with a truthy map[word], 0 when there is none *)
RECURSIVE FirstTruthy(_, _, _)
FirstTruthy(map, words, i) ==
    IF i > Len(words) THEN 0
    ELSE IF Truthy(Lookup(map, words[i])) THEN i
    ELSE FirstTruthy(map, words, i + 1)

(* shapeMap[word]() : an own entry is a function that builds a geometry;  *)
(* an inherited function is called as a plain function and returns        *)
(* something that is not a geometry; Object.prototype itself is not       *)
(* callable and the call throws a TypeError                               *)
CallShape(word) ==
    IF HasOwn(basicShapeMap, word) THEN OwnValue(basicShapeMap, word, 1)
    ELSE IF word = "__proto__" THEN "TypeError"
    ELSE "[not a geometry]"

generateBasicShape(words) ==
    LET si == FirstTruthy(basicShapeMap, words, 1)
        ci == FirstTruthy(basicColorMap, words, 1)
        geometry == IF si = 0 THEN "BoxGeometry(1,1,1)" ELSE CallShape(words[si])
        color == IF ci = 0 THEN "0x888888" ELSE Lookup(basicColorMap, words[ci])
    IN  IF geometry = "TypeError" THEN Throws ELSE Returned("Mesh", geometry, color)

generateTree == Returned("Group", "tree", "0x8B4513")
generateBuilding == Returned("Group", "building", "0x888888")
generateCar == Returned("Group", "car", "0xFF4444")

generateProceduralModel(prompt) ==
    LET words == WordsOf(prompt)
    IN  IF ~IsString(prompt) THEN Throws
        ELSE IF ArrayIncludes(words, "tree") \/ ArrayIncludes(words, "plant") THEN generateTree
        ELSE IF ArrayIncludes(words, "building") \/ ArrayIncludes(words, "house")
             THEN generateBuilding
        ELSE IF ArrayIncludes(words, "car") \/ ArrayIncludes(words, "vehicle") THEN generateCar
        ELSE generateBasicShape(words)

ProceduralVocabulary ==
    {"tree", "house", "car", "cube", "Sphere", "pyramid", "red", "zzz", "", "__proto__"}

ProceduralPrompts == PromptsUpTo(ProceduralVocabulary, MaxProceduralWords)

ProceduralIdle ==
    /\ prPrompt = ""
    /\ prPc = "idle"
    /\ prShapes = <<>>
    /\ prModel = Throws

ExtractShapesCall ==
    /\ prPc = "call"
    /\ prShapes' = extractShapes(WordsOf(prPrompt))
    /\ prPc' = "extracted"
    /\ UNCHANGED <<prPrompt, prModel>>
    /\ UNCHANGED notPr

GenerateProceduralModelCall ==
    /\ prPc = "extracted"
    /\ prModel' = generateProceduralModel(prPrompt)
    /\ prPc' = "done"
    /\ UNCHANGED <<prPrompt, prShapes>>
    /\ UNCHANGED notPr

(***************************************************************************)
(* Enhanced procedural synthesis:                                          *)
(* AIModelGenerator.generateAIStyledProceduralModel (ai-integration.js).   *)
(***************************************************************************)
patterns ==
    << <<"organic", {"tree", "plant", "flower", "animal", "creature", "organic"}>>,
       <<"architectural",
         {"building", "house", "tower", "bridge", "structure", "architecture"}>>,
       <<"mechanical", {"car", "robot", "machine", "vehicle", "device", "mechanical"}>>,
       <<"abstract", {"abstract", "sculpture", "art", "form", "shape", "geometric"}>>,
       <<"furniture", {"chair", "table", "lamp", "furniture", "desk", "shelf"}>> >>

(* the first category, in the order of the entries, one of whose keywords *)
(* is a word of the prompt; 'abstract' when there is none                  *)
RECURSIVE CategoryFrom(_, _)
CategoryFrom(words, i) ==
    IF i > Len(patterns) THEN "abstract"
    ELSE IF \E k \in patterns[i][2] : ArrayIncludes(words, k) THEN patterns[i][1]
    ELSE CategoryFrom(words, i + 1)

generateEnhancedOrganic(words) ==
    IF ArrayIncludes(words, "tree") \/ ArrayIncludes(words, "plant")
    THEN Returned("Group", "detailedTree", "0x8B4513")
    ELSE Returned("Mesh", "organicShape", "0x90EE90")

(* the colour recorded for a Group is that of its first material *)
generateEnhancedBuilding(words) ==
    LET isModern == ArrayIncludes(words, "modern") \/ ArrayIncludes(words, "glass")
        isTower == ArrayIncludes(words, "tower") \/ ArrayIncludes(words, "skyscraper")
    IN  IF isTower
        THEN Returned("Group", "tower", IF isModern THEN "0x888888" ELSE "0xDDDDDD")
        ELSE Returned("Group", "building", IF isModern THEN "0x666666" ELSE "0x888888")

generateEnhancedMechanical(words) ==
    IF ArrayIncludes(words, "car") \/ ArrayIncludes(words, "vehicle")
    THEN Returned("Group", "detailedCar",
                  IF ArrayIncludes(words, "red") THEN "0xFF4444"
                  ELSE IF ArrayIncludes(words, "blue") THEN "0x4444FF"
                  ELSE IF ArrayIncludes(words, "green") THEN "0x44FF44"
                  ELSE "0x888888")
    ELSE IF ArrayIncludes(words, "robot") \/ ArrayIncludes(words, "machine")
    THEN Returned("Group", "robot", "0x888888")
    ELSE Returned("Group", "mechanicalDevice", "0x444444")

generateEnhancedFurniture(words) ==
    IF ArrayIncludes(words, "chair") THEN Returned("Group", "chair", "0x8B4513")
    ELSE IF ArrayIncludes(words, "table") THEN Returned("Group", "table", "0x8B4513")
    ELSE IF ArrayIncludes(words, "lamp") THEN Returned("Group", "lamp", "0x444444")
    ELSE Returned("Group", "chair", "0x8B4513")

generateEnhancedAbstract(words) ==
    IF ArrayIncludes(words, "spiral") THEN Returned("Group", "spiral", "0x6666FF")
    ELSE IF ArrayIncludes(words, "crystal") THEN Returned("Group", "crystal", "random")
    ELSE Returned("Group", "abstractComposition", "random")

(* prompt.toLowerCase() throws a TypeError when prompt is not a string *)
generateAIStyledProceduralModel(prompt) ==
    LET words == WordsOf(prompt)
        category == CategoryFrom(words, 1)
    IN  IF ~IsString(prompt) THEN Throws
        ELSE IF category = "organic" THEN generateEnhancedOrganic(words)
        ELSE IF category = "architectural" THEN generateEnhancedBuilding(words)
        ELSE IF category = "mechanical" THEN generateEnhancedMechanical(words)
        ELSE IF category = "furniture" THEN generateEnhancedFurniture(words)
        ELSE generateEnhancedAbstract(words)

(***************************************************************************)
(* THREE objects.  A new object gets a geometry and material of its own;   *)
(* clone() copies the object's fields and shares geometry and material.    *)
(***************************************************************************)
Origin == [x |-> 0, y |-> 0, z |-> 0]

NewObject(h, origin, made) ==
    Append(h, [origin |-> origin, kind |-> made.kind, geometry |-> made.geometry,
               color |-> made.color, position |-> Origin, res |-> Len(h) + 1])

clone(h, id) == Append(h, h[id])

SetPosition(h, id, x, y, z) ==
    [h EXCEPT ![id].position = [x |-> x, y |-> y, z |-> z]]

(* the ids of a sequence of ids *)
Range(seq) == {seq[i] : i \in 1..Len(seq)}

(* clearScene: every tracked object leaves the scene and a Mesh (a Group  *)
(* has neither field) has its geometry and material disposed              *)
DisposedBy(h, objs) == {h[o].res : o \in {i \in Range(objs) : h[i].kind = "Mesh"}}

(* addToHistory: newest first, at most HistoryLimit entries *)
HistoryLimit == 10

addToHistory(hist, prompt) ==
    LET added == <<prompt>> \o hist
    IN  IF Len(added) > HistoryLimit THEN SubSeq(added, 1, HistoryLimit) ELSE added

(***************************************************************************)
(* The result cache: AIModelGenerator.modelCache, a Map from the prompt    *)
(* to {model, timestamp, hits}, written as the sequence of its entries in  *)
(* insertion order.                                                        *)
(***************************************************************************)
CacheLimit == 50

CacheIndex(cache, prompt) ==
    IF \E i \in 1..Len(cache) : cache[i].prompt = prompt
    THEN CHOOSE i \in 1..Len(cache) : cache[i].prompt = prompt
    ELSE 0

CacheKeys(cache) == {cache[i].prompt : i \in 1..Len(cache)}

(* Map.set: an existing key keeps its place, a new key goes last *)
MapSet(cache, entry) ==
    LET i == CacheIndex(cache, entry.prompt)
    IN  IF i = 0 THEN Append(cache, entry) ELSE [cache EXCEPT ![i] = entry]

(* entries sorted by timestamp, [0]: the sort is stable, so the first in  *)
(* insertion order of the entries with the smallest timestamp              *)
Oldest(cache) ==
    CHOOSE i \in 1..Len(cache) :
        \A j \in 1..Len(cache) :
            \/ cache[i].timestamp < cache[j].timestamp
            \/ cache[i].timestamp = cache[j].timestamp /\ i <= j

MapDelete(cache, i) ==
    SubSeq(cache, 1, i - 1) \o SubSeq(cache, i + 1, Len(cache))

(* cacheModel without the size limit *)
cacheModelUnlimited(cache, prompt, model, t) ==
    MapSet(cache, [prompt |-> prompt, model |-> model, timestamp |-> t, hits |-> 1])

cacheModel(cache, prompt, model, t) ==
    LET set == MapSet(cache, [prompt |-> prompt, model |-> model,
                              timestamp |-> t, hits |-> 1])
    IN  IF Len(set) > CacheLimit THEN MapDelete(set, Oldest(set)) ELSE set

(* getCachedModel without cached.hits++ *)
TouchCachedNoCount(cache, prompt) == cache

(* the times of the hits, with a hit of the prompt at time t *)
HitAt(times, prompt, t) ==
    {h \in times : h.prompt # prompt} \cup {[prompt |-> prompt, at |-> t]}

(* getCachedModel: the entry's hits grow by one; the caller gets a clone *)
TouchCached(cache, prompt) ==
    LET i == CacheIndex(cache, prompt)
    IN  IF i = 0 THEN cache ELSE [cache EXCEPT ![i].hits = @ + 1]

(***************************************************************************)
(* The state after construction of the application and of the generator.   *)
(***************************************************************************)
NoModel == 0

AppIdle ==
    /\ heap = <<>>
    /\ scene = {}
    /\ objects = <<>>
    /\ disposed = {}
    /\ history = <<>>
    /\ usage = [procedural |-> 0, hf |-> 0]
    /\ notification = "none"

GenIdle ==
    /\ modelCache = <<>>
    /\ now = 0
    /\ strategyCalls = 0
    /\ networkRequests = 0
    /\ gateChecks = 0
    /\ calls = 0

TryIdle ==
    /\ tryPc = "idle"
    /\ tryPrompt = ""
    /\ tryIdx = 0
    /\ tryAttempted = <<>>
    /\ tryResult = NoModel
    /\ tryHit = FALSE
    /\ tryElapsed = 0
    /\ tryPlan = "none"
    /\ abandoned = {}

UiIdle ==
    /\ uiPrompt = ""
    /\ useHF = FALSE
    /\ hasToken = FALSE
    /\ ugPc = "idle"
    /\ ugPrompt = ""
    /\ ugPlan = "none"
    /\ ugModel = NoModel

LexIdle == LegacyIdle /\ MatchIdle /\ ProceduralIdle

(* Date.now() advances *)
Tick ==
    /\ now < MaxTime
    /\ now' = now + 1
    /\ UNCHANGED <<modelCache, strategyCalls, networkRequests, gateChecks, calls>>
    /\ UNCHANGED <<lexVars, appVars, tryVars, uiVars>>

(***************************************************************************)
(* Direct calls of the cache operations.  The prompts of the calls are     *)
(* prompts never submitted before and the first prompt, submitted again.   *)
(* The clone getCachedModel returns is dropped by these callers.           *)
(***************************************************************************)
PromptName(i) == "p" \o ToString(i)

(* calls counts the prompts never seen before that were submitted *)
CacheModelCall(prompt, isNew) ==
    /\ isNew => calls < MaxCacheCalls
    /\ modelCache' = cacheModel(modelCache, prompt, 1, now)
    /\ calls' = IF isNew THEN calls + 1 ELSE calls
    /\ UNCHANGED <<now, strategyCalls, networkRequests, gateChecks>>
    /\ UNCHANGED <<lexVars, appVars, tryVars, uiVars>>

GetCachedModelCall(prompt) ==
    LET i == CacheIndex(modelCache, prompt)
    IN  /\ i # 0
        /\ modelCache[i].hits < MaxHits
        /\ modelCache' = TouchCached(modelCache, prompt)
        /\ hitTimes' = HitAt(hitTimes, prompt, now)
        /\ UNCHANGED <<now, strategyCalls, networkRequests, gateChecks, calls>>
        /\ UNCHANGED <<lgVars, fmVars, prVars, svcBase, ovVars, animVars, tokVars, clVars>>
        /\ UNCHANGED <<appVars, tryVars, uiVars>>

CacheModelFresh == CacheModelCall(PromptName(calls + 1), TRUE)
CacheModelAgain == calls >= 1 /\ CacheModelCall(PromptName(1), FALSE)
GetCachedModelHit == GetCachedModelCall(PromptName(1))

(***************************************************************************)
(* The generation orchestrator: generateGeometryDirect,                    *)
(* parseAndCreateGeometry and tryAIGeneration (main.js).                   *)
(***************************************************************************)
strategies ==
    << [name |-> "GLB Models", timeout |-> 15000],
       [name |-> "Hugging Face", timeout |-> 45000],
       [name |-> "Enhanced Procedural", timeout |-> 5000],
       [name |-> "Basic Procedural", timeout |-> 3000] >>

(* what a remote request can do: answer with a model, fail so that the    *)
(* service falls back to its own procedural model, answer after the       *)
(* deadline of the caller, or never answer                                 *)
RemotePlans == {"inference", "fallback", "late", "never"}

(* HuggingFaceService.optimizeModel wraps the loaded geometry in a Mesh *)
InferredModel == Returned("Mesh", "inferred", "0x888888")

(* HuggingFaceService.createEnhancedProceduralModel: a procedural Group *)
createEnhancedProceduralModel == Returned("Group", "serviceProcedural", "random")

(* how strategy.fn() can go for a prompt.  AIModelGenerator has no method *)
(* generateWithGLBLibrary, so the call of the first strategy throws a     *)
(* TypeError.  generateWithShapE rejects only when the prompt is not a    *)
(* string (prompt.trim() and then prompt.toLowerCase() throw).            *)
StrategyPlans(name, prompt) ==
    IF name = "GLB Models" THEN {"throws"}
    ELSE IF name = "Hugging Face"
         THEN IF IsString(prompt) THEN RemotePlans ELSE {"rejects"}
    ELSE IF name = "Enhanced Procedural"
         THEN IF generateAIStyledProceduralModel(prompt).status = "returned"
              THEN {"model"} ELSE {"rejects"}
    ELSE IF generateProceduralModel(prompt).status = "returned"
         THEN {"model"} ELSE {"throws"}

(* the model a strategy resolves with *)
StrategyModel(name, plan, prompt) ==
    IF name = "Hugging Face"
    THEN IF plan = "inference" THEN InferredModel ELSE createEnhancedProceduralModel
    ELSE IF name = "Enhanced Procedural" THEN generateAIStyledProceduralModel(prompt)
    ELSE generateProceduralModel(prompt)

StrategyOrigin(name, plan) ==
    IF name = "GLB Models" THEN "asset"
    ELSE IF name = "Hugging Face" /\ plan = "inference" THEN "inference"
    ELSE "procedural"

(* generateGeometryDirect up to the first await of tryAIGeneration: the   *)
(* scene is cleared and the cache is looked up                            *)
GenerateGeometryDirect(prompt) ==
    LET i == CacheIndex(modelCache, prompt)
    IN  /\ tryPc = "idle"
        /\ calls < MaxGenCalls
        /\ calls' = calls + 1
        /\ scene' = scene \ Range(objects)
        /\ disposed' = disposed \cup DisposedBy(heap, objects)
        /\ objects' = <<>>
        /\ tryPrompt' = prompt
        /\ tryAttempted' = <<>>
        /\ tryElapsed' = 0
        /\ tryPlan' = "none"
        /\ IF i # 0
           THEN /\ modelCache' = TouchCached(modelCache, prompt)
                /\ hitTimes' = HitAt(hitTimes, prompt, now)
                /\ heap' = clone(heap, modelCache[i].model)
                /\ tryResult' = Len(heap) + 1
                /\ tryHit' = TRUE
                /\ tryIdx' = 0
                /\ tryPc' = "returned"
                /\ notification' = "Using cached AI model"
           ELSE /\ tryResult' = NoModel
                /\ tryHit' = FALSE
                /\ tryIdx' = 1
                /\ tryPc' = "next"
                /\ notification' = "Generating with AI..."
                /\ UNCHANGED <<modelCache, heap, hitTimes>>
        /\ UNCHANGED <<history, usage, now, strategyCalls, networkRequests, gateChecks,
                       abandoned>>
        /\ UNCHANGED <<lgVars, fmVars, prVars, svcBase, ovVars, animVars, tokVars, clVars,
                       uiVars>>

GenPrompts == {"car", "flower", Undefined}

(* prompts that differ in letter case and in whitespace only *)
VariantPrompts == {"car", "Car", " car", "red  car", "red car", Undefined}

GenerateGeometryDirectVariant ==
    \E prompt \in VariantPrompts : GenerateGeometryDirect(prompt)

GenerateGeometryDirectCall == \E prompt \in GenPrompts : GenerateGeometryDirect(prompt)

(* the loop reaches the next strategy and calls strategy.fn(): a          *)
(* synchronous throw is caught at once, otherwise the promise races the   *)
(* timer of the strategy                                                   *)
InvokeStrategy ==
    /\ tryPc = "next"
    /\ tryIdx <= Len(strategies)
    /\ \E plan \in StrategyPlans(strategies[tryIdx].name, tryPrompt) :
          /\ tryAttempted' = Append(tryAttempted, strategies[tryIdx].name)
          /\ strategyCalls' = strategyCalls + 1
          /\ networkRequests' =
                IF plan \in RemotePlans THEN networkRequests + 1 ELSE networkRequests
          /\ IF plan = "throws"
             THEN /\ tryIdx' = tryIdx + 1
                  /\ UNCHANGED <<tryPc, tryPlan>>
             ELSE /\ tryPc' = "racing"
                  /\ tryPlan' = plan
                  /\ UNCHANGED tryIdx
    /\ notification' = "Trying " \o strategies[tryIdx].name \o "..."
    /\ UNCHANGED <<tryPrompt, tryResult, tryHit, tryElapsed, abandoned>>
    /\ UNCHANGED <<heap, scene, objects, disposed, history, usage>>
    /\ UNCHANGED <<modelCache, now, gateChecks, calls>>
    /\ UNCHANGED <<lexVars, uiVars>>

(* the promise of the strategy resolves with a model before the deadline: *)
(* the model is cached under the prompt and returned                      *)
StrategyResolves ==
    /\ tryPc = "racing"
    /\ tryPlan \in {"inference", "fallback", "model"}
    /\ \E delay \in {0, strategies[tryIdx].timeout - 1} :
          tryElapsed' = tryElapsed + delay
    /\ heap' = NewObject(heap, StrategyOrigin(strategies[tryIdx].name, tryPlan),
                         StrategyModel(strategies[tryIdx].name, tryPlan, tryPrompt))
    /\ modelCache' = cacheModel(modelCache, tryPrompt, Len(heap) + 1, now)
    /\ tryResult' = Len(heap) + 1
    /\ tryPc' = "returned"
    /\ notification' = strategies[tryIdx].name \o " generation successful!"
    /\ UNCHANGED <<tryPrompt, tryIdx, tryAttempted, tryHit, tryPlan, abandoned>>
    /\ UNCHANGED <<scene, objects, disposed, history, usage>>
    /\ UNCHANGED <<now, strategyCalls, networkRequests, gateChecks, calls>>
    /\ UNCHANGED <<lexVars, uiVars>>

(* the loop without its catch: the rejection of a strategy ends the call *)
StrategyRejectsUncaught ==
    /\ tryPc = "racing"
    /\ tryPlan = "rejects"
    /\ tryPc' = "rejected"
    /\ UNCHANGED <<tryPrompt, tryIdx, tryAttempted, tryResult, tryHit, tryElapsed,
                   tryPlan, abandoned>>
    /\ UNCHANGED <<appVars, genVars, lexVars, uiVars>>

(* the promise of the strategy rejects: caught, the loop continues *)
StrategyRejects ==
    /\ tryPc = "racing"
    /\ tryPlan = "rejects"
    /\ tryIdx' = tryIdx + 1
    /\ tryPc' = "next"
    /\ tryPlan' = "none"
    /\ UNCHANGED <<tryPrompt, tryAttempted, tryResult, tryHit, tryElapsed, abandoned>>
    /\ UNCHANGED <<appVars, genVars, lexVars, uiVars>>

(* the timer of the strategy fires first: the race rejects, the loop      *)
(* continues and the promise of the strategy stays pending                *)
StrategyTimesOut ==
    /\ tryPc = "racing"
    /\ tryPlan \in {"late", "never"}
    /\ tryElapsed' = tryElapsed + strategies[tryIdx].timeout
    /\ abandoned' = abandoned \cup
           {[call |-> calls, strategy |-> strategies[tryIdx].name, plan |-> tryPlan]}
    /\ tryIdx' = tryIdx + 1
    /\ tryPc' = "next"
    /\ tryPlan' = "none"
    /\ UNCHANGED <<tryPrompt, tryAttempted, tryResult, tryHit>>
    /\ UNCHANGED <<appVars, genVars, lexVars, uiVars>>

(* an orchestrator whose strategies insert their own result: the late    *)
(* model of an abandoned promise is stored under the prompt               *)
AbandonedSettlesCaching ==
    /\ \E a \in abandoned :
          /\ a.plan = "late"
          /\ abandoned' = abandoned \ {a}
    /\ heap' = NewObject(heap, "procedural", createEnhancedProceduralModel)
    /\ modelCache' = cacheModel(modelCache, tryPrompt, Len(heap) + 1, now)
    /\ UNCHANGED <<tryPc, tryPrompt, tryIdx, tryAttempted, tryResult, tryHit,
                   tryElapsed, tryPlan>>
    /\ UNCHANGED <<scene, objects, disposed, history, usage, notification>>
    /\ UNCHANGED <<now, strategyCalls, networkRequests, gateChecks, calls>>
    /\ UNCHANGED <<lexVars, uiVars>>

(* an abandoned promise settles after its race was lost: nobody reads it *)
AbandonedSettles ==
    /\ \E a \in abandoned :
          /\ a.plan = "late"
          /\ abandoned' = abandoned \ {a}
    /\ UNCHANGED <<tryPc, tryPrompt, tryIdx, tryAttempted, tryResult, tryHit,
                   tryElapsed, tryPlan>>
    /\ UNCHANGED <<appVars, genVars, lexVars, uiVars>>

(* the loop ran out of strategies: return null *)
AllStrategiesFailed ==
    /\ tryPc = "next"
    /\ tryIdx > Len(strategies)
    /\ tryResult' = NoModel
    /\ tryPc' = "returned"
    /\ UNCHANGED <<tryPrompt, tryIdx, tryAttempted, tryHit, tryElapsed, tryPlan,
                   abandoned>>
    /\ UNCHANGED <<appVars, genVars, lexVars, uiVars>>

(* parseAndCreateGeometry after tryAIGeneration returned and the rest of   *)
(* generateGeometryDirect.  A model is placed at (0,1,0), added to the     *)
(* scene and tracked.  Without a model parseAndCreateGeometryProcedural    *)
(* runs: the enhanced synthesis returns a model for every string, and for  *)
(* a prompt that is not a string every fallback throws and                 *)
(* generateGeometryDirect reports the error.                               *)
DisplayResult ==
    /\ tryPc = "returned"
    /\ IF tryResult # NoModel
       THEN /\ heap' = SetPosition(heap, tryResult, 0, 1, 0)
            /\ scene' = scene \cup {tryResult}
            /\ objects' = Append(objects, tryResult)
            /\ history' = addToHistory(history, tryPrompt)
            /\ notification' = "Scene created successfully!"
       ELSE IF generateAIStyledProceduralModel(tryPrompt).status = "returned"
       THEN /\ heap' = NewObject(heap, "procedural",
                                 generateAIStyledProceduralModel(tryPrompt))
            /\ scene' = scene \cup {Len(heap) + 1}
            /\ objects' = Append(objects, Len(heap) + 1)
            /\ history' = addToHistory(history, tryPrompt)
            /\ notification' = "Scene created successfully!"
       ELSE /\ notification' = "Error creating scene. Please try again."
            /\ UNCHANGED <<heap, scene, objects, history>>
    /\ tryPc' = "idle"
    /\ UNCHANGED <<tryPrompt, tryIdx, tryAttempted, tryResult, tryHit, tryElapsed,
                   tryPlan, abandoned>>
    /\ UNCHANGED <<disposed, usage>>
    /\ UNCHANGED <<genVars, lexVars, uiVars>>

(***************************************************************************)
(* The generate handler: generateGeometry, generateWithUserToken and       *)
(* generateProcedural (main.js), with the usage gate canGenerate and       *)
(* incrementUsage, for an anonymous user (currentUser is null).            *)
(* generateGeometry is followed one generation at a time; a click that     *)
(* starts no generation is followed at any time.                           *)
(***************************************************************************)
AnonymousProceduralLimit == 999

canGenerate(hf) ==
    IF hf THEN hasToken ELSE usage.procedural < AnonymousProceduralLimit

incrementUsage(u, hf) ==
    IF hf THEN [u EXCEPT !.hf = @ + 1] ELSE [u EXCEPT !.procedural = @ + 1]

UiPrompts == {"", "  ", " car", "flower"}

(* the user edits the prompt input *)
TypePrompt ==
    /\ \E prompt \in UiPrompts :
          /\ prompt # uiPrompt
          /\ uiPrompt' = prompt
    /\ UNCHANGED <<useHF, hasToken, ugPc, ugPrompt, ugPlan, ugModel>>
    /\ UNCHANGED <<appVars, genVars, lexVars, tryVars>>

(* the user switches the AI toggle *)
ToggleHF ==
    /\ useHF' = ~useHF
    /\ UNCHANGED <<uiPrompt, hasToken, ugPc, ugPrompt, ugPlan, ugModel>>
    /\ UNCHANGED <<appVars, genVars, lexVars, tryVars>>

(* HFTokenManager.setToken with a well-formed token *)
SetToken ==
    /\ ~hasToken
    /\ hasToken' = TRUE
    /\ UNCHANGED <<uiPrompt, useHF, ugPc, ugPrompt, ugPlan, ugModel>>
    /\ UNCHANGED <<appVars, genVars, lexVars, tryVars>>

(* HFTokenManager.removeToken *)
RemoveToken ==
    /\ hasToken
    /\ hasToken' = FALSE
    /\ UNCHANGED <<uiPrompt, useHF, ugPc, ugPrompt, ugPlan, ugModel>>
    /\ UNCHANGED <<appVars, genVars, lexVars, tryVars>>

(* generateGeometry up to its first await.  With the AI toggle on and a   *)
(* token, generateWithUserToken awaits hfService.generate3DModel, with    *)
(* no deadline.  Otherwise generateProcedural clears the scene and calls  *)
(* the enhanced synthesis, which builds its model before it returns its   *)
(* promise, and awaits it.                                                 *)
GenerateGeometry ==
    LET prompt == trim(uiPrompt)
        made == generateAIStyledProceduralModel(prompt)
    IN  /\ calls + Len(umCalls) < MaxAppCalls
        /\ ugPc = "idle" \/ prompt = "" \/ ~canGenerate(useHF)
        /\ calls' = calls + 1
        /\ IF prompt = ""
           THEN /\ notification' = "Please enter a description"
                /\ UNCHANGED <<heap, scene, objects, disposed, history, usage>>
                /\ UNCHANGED <<modelCache, now, strategyCalls, networkRequests, gateChecks>>
                /\ UNCHANGED <<ugPc, ugPrompt, ugPlan, ugModel>>
           ELSE IF ~canGenerate(useHF)
           THEN /\ gateChecks' = gateChecks + 1
                /\ notification' = IF useHF THEN "No AI credits remaining"
                                   ELSE "Generation limit reached"
                /\ UNCHANGED <<heap, scene, objects, disposed, history, usage>>
                /\ UNCHANGED <<modelCache, now, strategyCalls, networkRequests>>
                /\ UNCHANGED <<ugPc, ugPrompt, ugPlan, ugModel>>
           ELSE IF useHF
           THEN /\ gateChecks' = gateChecks + 1
                /\ ugPc' = "remote"
                /\ ugPrompt' = prompt
                /\ ugPlan' \in {"inference", "fallback", "never"}
                /\ ugModel' = NoModel
                /\ strategyCalls' = strategyCalls + 1
                /\ networkRequests' = networkRequests + 1
                /\ UNCHANGED <<heap, scene, objects, disposed, history, usage, notification>>
                /\ UNCHANGED <<modelCache, now>>
           ELSE /\ gateChecks' = gateChecks + 1
                /\ ugPc' = "procedural"
                /\ ugPrompt' = prompt
                /\ ugPlan' = IF made.status = "returned" THEN "model" ELSE "rejects"
                /\ heap' = IF made.status = "returned"
                           THEN NewObject(heap, "procedural", made) ELSE heap
                /\ ugModel' = IF made.status = "returned" THEN Len(heap) + 1 ELSE NoModel
                /\ strategyCalls' = strategyCalls + 1
                /\ scene' = scene \ Range(objects)
                /\ disposed' = disposed \cup DisposedBy(heap, objects)
                /\ objects' = <<>>
                /\ UNCHANGED <<history, usage, notification>>
                /\ UNCHANGED <<modelCache, now, networkRequests>>
        /\ UNCHANGED <<uiPrompt, useHF, hasToken>>
        /\ UNCHANGED <<lexVars, tryVars>>

(* hfService.generate3DModel resolved: generateWithUserToken clears the   *)
(* scene and adds the model, then generateGeometry counts the generation  *)
UserTokenSettles ==
    /\ ugPc = "remote"
    /\ ugPlan \in {"inference", "fallback"}
    /\ heap' = NewObject(heap, IF ugPlan = "inference" THEN "inference" ELSE "procedural",
                         IF ugPlan = "inference" THEN InferredModel
                         ELSE createEnhancedProceduralModel)
    /\ ugModel' = Len(heap) + 1
    /\ scene' = (scene \ Range(objects)) \cup {Len(heap) + 1}
    /\ disposed' = disposed \cup DisposedBy(heap, objects)
    /\ objects' = <<>>
    /\ notification' = "AI generation completed!"
    /\ usage' = incrementUsage(usage, TRUE)
    /\ ugPc' = "idle"
    /\ UNCHANGED <<history, uiPrompt, useHF, hasToken, ugPrompt, ugPlan>>
    /\ UNCHANGED <<genVars, lexVars, tryVars>>

(* the promise of the enhanced synthesis settled: generateProcedural      *)
(* places, adds and tracks the model and records the prompt, or reports   *)
(* the failure; then generateGeometry counts the generation               *)
ProceduralSettles ==
    /\ ugPc = "procedural"
    /\ IF ugModel # NoModel
       THEN /\ heap' = SetPosition(heap, ugModel, 0, 0, 0)
            /\ scene' = scene \cup {ugModel}
            /\ objects' = Append(objects, ugModel)
            /\ history' = addToHistory(history, ugPrompt)
            /\ notification' = "Enhanced procedural generation completed!"
       ELSE /\ notification' = "Generation failed"
            /\ UNCHANGED <<heap, scene, objects, history>>
    /\ usage' = incrementUsage(usage, FALSE)
    /\ ugPc' = "idle"
    /\ UNCHANGED <<disposed, uiPrompt, useHF, hasToken, ugPrompt, ugPlan, ugModel>>
    /\ UNCHANGED <<genVars, lexVars, tryVars>>

(***************************************************************************)
(* GLBModelLibrary (utils/helpers.js).  An asset file is fetched by the    *)
(* GLTFLoader; the scene it delivers has a bounding box of some native     *)
(* size.  Sizes and scales are exact fractions num/den.                    *)
(***************************************************************************)
AssetFiles == {"Horse.glb", "ferrari.glb"}

(* bounding boxes <<x, y, z>> of the scenes the loader may deliver *)
NativeSizes == {<<1, 2, 1>>, <<3, 1, 2>>, <<6, 4, 2>>}

Fraction(n, d) == [num |-> n, den |-> d]

FractionEquals(f, n) == f.num = n * f.den

FractionGreater(f, n) == f.num > n * f.den

(* gltf.scene: an object with scale 1 whose meshes own geometry and material *)
GltfScene(file, size, id) ==
    [file |-> file, size |-> size, scale |-> Fraction(1, 1),
     y |-> Fraction(0, 1), geometry |-> id, material |-> id]

(* new THREE.Box3().setFromObject(model).getSize(): the world-space size *)
BoxSize(model) ==
    [i \in 1..3 |-> Fraction(model.size[i] * model.scale.num, model.scale.den)]

(* Math.max(size.x, size.y, size.z); the three share one denominator *)
MaxDim(size) ==
    CHOOSE f \in {size[i] : i \in 1..3} : \A i \in 1..3 : f.num >= size[i].num

TargetSize == 3

(* model.scale.multiplyScalar(scale) *)
multiplyScalar(model, f) ==
    [model EXCEPT !.scale = Fraction(model.scale.num * f.num, model.scale.den * f.den)]

(* optimizeModel: scale applied when maxDim > 3 only; then the model is    *)
(* set on the ground                                                       *)
optimizeModel(model) ==
    LET maxDim == MaxDim(BoxSize(model))
        scaled == IF FractionGreater(maxDim, TargetSize)
                  THEN multiplyScalar(model, Fraction(TargetSize * maxDim.den, maxDim.num))
                  ELSE model
        newSize == BoxSize(scaled)
    IN  [scaled EXCEPT !.y = Fraction(newSize[2].num, 2 * newSize[2].den)]

(* cloneModel: model.clone() shares the geometry; every mesh material is   *)
(* cloned                                                                  *)
cloneModel(objs, id) ==
    Append(objs, [objs[id] EXCEPT !.material = Len(objs) + 1])

NoPromise == 0

LibIdle ==
    /\ glbModelCache = [f \in AssetFiles |-> NoModel]
    /\ loadingPromises = [f \in AssetFiles |-> NoPromise]
    /\ promises = <<>>
    /\ glbObjects = <<>>
    /\ loadCalls = <<>>


(* this.modelCache.has(modelFile) *)
IsCached(cache, modelFile) == cache[modelFile] # NoModel

(* a load promise exists for the file and every caller awaits it *)
IsLoadingNever(loading, modelFile) == FALSE

(* this.loadingPromises.has(modelFile) *)
IsLoading(loading, modelFile) == loading[modelFile] # NoPromise

LoadCall(file, path, promise, pc, result) ==
    [file |-> file, path |-> path, promise |-> promise, pc |-> pc, result |-> result]

(* loadModel(modelFile) up to its first await or its return *)
LoadModel(modelFile) ==
    /\ Len(loadCalls) < MaxLoadCalls
    /\ IF IsCached(glbModelCache, modelFile)
       THEN /\ glbObjects' = cloneModel(glbObjects, glbModelCache[modelFile])
            /\ loadCalls' = Append(loadCalls,
                   LoadCall(modelFile, "cache", NoPromise, "returned", Len(glbObjects) + 1))
            /\ UNCHANGED <<loadingPromises, promises>>
       ELSE IF IsLoading(loadingPromises, modelFile)
       THEN /\ loadCalls' = Append(loadCalls,
                   LoadCall(modelFile, "wait", loadingPromises[modelFile], "awaiting", NoModel))
            /\ UNCHANGED <<loadingPromises, promises, glbObjects>>
       ELSE /\ promises' = Append(promises,
                   [file |-> modelFile, state |-> "pending", model |-> NoModel])
            /\ loadingPromises' = [loadingPromises EXCEPT ![modelFile] = Len(promises) + 1]
            /\ loadCalls' = Append(loadCalls,
                   LoadCall(modelFile, "fetch", Len(promises) + 1, "awaiting", NoModel))
            /\ UNCHANGED glbObjects
    /\ UNCHANGED glbModelCache
    /\ UNCHANGED notLib

LoadModelCall == \E modelFile \in AssetFiles : LoadModel(modelFile)

(* the onLoad callback of loader.load: optimize, cache, forget the         *)
(* promise, resolve                                                        *)
LoaderOnLoad ==
    \E p \in 1..Len(promises) : \E size \in NativeSizes :
        LET file == promises[p].file
            id == Len(glbObjects) + 1
        IN  /\ promises[p].state = "pending"
            /\ glbObjects' = Append(glbObjects, optimizeModel(GltfScene(file, size, id)))
            /\ glbModelCache' = [glbModelCache EXCEPT ![file] = id]
            /\ loadingPromises' = [loadingPromises EXCEPT ![file] = NoPromise]
            /\ promises' = [promises EXCEPT ![p] = [@ EXCEPT !.state = "resolved", !.model = id]]
            /\ UNCHANGED loadCalls
            /\ UNCHANGED notLib

(* an onError callback that rejects and keeps the loadingPromises entry *)
LoaderOnErrorKeeping ==
    \E p \in 1..Len(promises) :
        /\ promises[p].state = "pending"
        /\ promises' = [promises EXCEPT ![p] = [@ EXCEPT !.state = "rejected"]]
        /\ UNCHANGED <<glbModelCache, loadingPromises, glbObjects, loadCalls>>
        /\ UNCHANGED notLib

(* the onError callback of loader.load: forget the promise, reject *)
LoaderOnError ==
    \E p \in 1..Len(promises) :
        /\ promises[p].state = "pending"
        /\ loadingPromises' = [loadingPromises EXCEPT ![promises[p].file] = NoPromise]
        /\ promises' = [promises EXCEPT ![p] = [@ EXCEPT !.state = "rejected"]]
        /\ UNCHANGED <<glbModelCache, glbObjects, loadCalls>>
        /\ UNCHANGED notLib

(* loadModel after its await: return this.cloneModel(model), or the        *)
(* rejection is thrown to the caller                                       *)
LoadModelResumes ==
    \E c \in 1..Len(loadCalls) :
        LET p == loadCalls[c].promise
        IN  /\ loadCalls[c].pc = "awaiting"
            /\ promises[p].state # "pending"
            /\ IF promises[p].state = "resolved"
               THEN /\ glbObjects' = cloneModel(glbObjects, promises[p].model)
                    /\ loadCalls' = [loadCalls EXCEPT ![c] =
                           [@ EXCEPT !.pc = "returned", !.result = Len(glbObjects) + 1]]
               ELSE /\ loadCalls' = [loadCalls EXCEPT ![c] = [@ EXCEPT !.pc = "threw"]]
                    /\ UNCHANGED glbObjects
            /\ UNCHANGED <<glbModelCache, loadingPromises, promises>>
            /\ UNCHANGED notLib

(* the promises whose fetch is in flight *)
PendingLoads == {p \in 1..Len(promises) : promises[p].state = "pending"}

(* clearCache: both Maps are emptied; the fetches in flight go on.  A call *)
(* on two empty Maps changes nothing and is left out                      *)
ClearCache ==
    /\ clears < MaxClears
    /\ clears' = clears + 1
    /\ \E f \in AssetFiles : IsCached(glbModelCache, f) \/ IsLoading(loadingPromises, f)
    /\ glbModelCache' = [f \in AssetFiles |-> NoModel]
    /\ loadingPromises' = [f \in AssetFiles |-> NoPromise]
    /\ clearedLoads' = clearedLoads \cup PendingLoads
    /\ UNCHANGED <<promises, glbObjects, loadCalls>>
    /\ UNCHANGED <<coreVars, hfVars, cvVars, umVars, ovVars, evVars, animVars, tokVars>>


(***************************************************************************)
(* HuggingFaceService (part_005): the rate limit and the daily limit of    *)
(* directAPICall, and the requests tryMultipleApproaches sends.  Times are *)
(* milliseconds.                                                           *)
(***************************************************************************)
DailyLimit == 1000

MinRequestInterval == 1000

HalfInterval == MinRequestInterval \div 2

(* the constructor: requestCount is what loadRequestCount finds stored     *)
(* for today; Date.now() is far from lastRequestTime = 0                   *)
HfConstructed(count) ==
    /\ hfNow = MinRequestInterval
    /\ lastRequestTime = 0
    /\ requestCount = count
    /\ hfCalls = <<>>
    /\ hfSent = <<>>

HfIdle == HfConstructed(0)


HfTick ==
    /\ hfNow < MinRequestInterval + MaxHfTicks * HalfInterval
    /\ hfNow' = hfNow + HalfInterval
    /\ UNCHANGED <<lastRequestTime, requestCount, hfCalls, hfSent>>
    /\ UNCHANGED notHf

HfCall(pc, wakeAt, limitError, requests) ==
    [pc |-> pc, wakeAt |-> wakeAt, limitError |-> limitError, requests |-> requests]

(* this.requestCount >= this.dailyLimit *)
DailyLimitReached(count) == count >= DailyLimit

(* directAPICall after its rate-limit wait: the daily-limit check throws,  *)
(* tryMultipleApproaches catches and gradioAPICall sends the Stable        *)
(* Diffusion request; or the request of directAPICall is sent              *)
CheckLimitAndSend(cs, c) ==
    /\ hfSent' = Append(hfSent, hfNow)
    /\ IF DailyLimitReached(requestCount)
       THEN hfCalls' = [cs EXCEPT ![c] = HfCall("sd", 0, TRUE, @.requests + 1)]
       ELSE hfCalls' = [cs EXCEPT ![c] = HfCall("direct", 0, @.limitError, @.requests + 1)]

(* generate3DModel -> tryMultipleApproaches -> directAPICall up to the     *)
(* first await                                                             *)
Generate3DModel ==
    /\ Len(hfCalls) < MaxHfCalls
    /\ LET timeSinceLastRequest == hfNow - lastRequestTime
           c == Len(hfCalls) + 1
       IN  IF timeSinceLastRequest < MinRequestInterval
           THEN /\ hfCalls' = Append(hfCalls,
                       HfCall("waiting", hfNow + (MinRequestInterval - timeSinceLastRequest),
                              FALSE, 0))
                /\ UNCHANGED hfSent
           ELSE CheckLimitAndSend(Append(hfCalls, HfCall("start", 0, FALSE, 0)), c)
    /\ UNCHANGED <<hfNow, lastRequestTime, requestCount>>
    /\ UNCHANGED notHf

(* the timer of the rate-limit wait fires *)
RateLimitWaitEnds ==
    \E c \in 1..Len(hfCalls) :
        /\ hfCalls[c].pc = "waiting"
        /\ hfNow >= hfCalls[c].wakeAt
        /\ CheckLimitAndSend(hfCalls, c)
        /\ UNCHANGED <<hfNow, lastRequestTime, requestCount>>
        /\ UNCHANGED notHf

(* the fetch of directAPICall settles: a response is counted; a usable     *)
(* response ends the call; an error response or a rejected fetch makes     *)
(* tryMultipleApproaches go on to gradioAPICall, which sends the Stable    *)
(* Diffusion request                                                       *)
DirectFetchSettles ==
    \E c \in 1..Len(hfCalls) : \E outcome \in {"ok", "error", "network"} :
        /\ hfCalls[c].pc = "direct"
        /\ IF outcome = "network"
           THEN UNCHANGED <<lastRequestTime, requestCount>>
           ELSE /\ lastRequestTime' = hfNow
                /\ requestCount' = requestCount + 1
        /\ IF outcome = "ok"
           THEN /\ hfCalls' = [hfCalls EXCEPT ![c] = [@ EXCEPT !.pc = "done"]]
                /\ UNCHANGED hfSent
           ELSE /\ hfCalls' = [hfCalls EXCEPT ![c] =
                       [@ EXCEPT !.pc = "sd", !.requests = @ + 1]]
                /\ hfSent' = Append(hfSent, hfNow)
        /\ UNCHANGED hfNow
        /\ UNCHANGED notHf

(* the fetch of generateImageWithStableDiffusion settles; gradioAPICall    *)
(* returns a model whatever the outcome                                    *)
StableDiffusionSettles ==
    \E c \in 1..Len(hfCalls) :
        /\ hfCalls[c].pc = "sd"
        /\ hfCalls' = [hfCalls EXCEPT ![c] = [@ EXCEPT !.pc = "done"]]
        /\ UNCHANGED <<hfNow, lastRequestTime, requestCount, hfSent>>
        /\ UNCHANGED notHf


(***************************************************************************)
(* HuggingFaceService (part_005): the procedural models of the service and *)
(* convertImageTo3D.  A method the class does not define is undefined, and *)
(* calling it throws a TypeError.                                          *)
(***************************************************************************)
categories ==
    << <<"animals", {"dog", "cat", "bird", "fish", "animal", "creature"}>>,
       <<"vehicles", {"car", "truck", "plane", "boat", "vehicle", "aircraft"}>>,
       <<"buildings", {"house", "building", "tower", "castle", "structure"}>>,
       <<"furniture", {"chair", "table", "lamp", "desk", "furniture"}>>,
       <<"nature", {"tree", "flower", "mountain", "rock", "plant"}>>,
       <<"abstract", {"sculpture", "art", "abstract", "form", "shape"}>> >>

(* keywords.filter(keyword => words.includes(keyword)).length *)
Matches(words, keywords) == Cardinality({k \in keywords : ArrayIncludes(words, k)})

(* the loop over Object.entries(categories): the first category with the   *)
(* most matches, 'abstract' when nothing matches                           *)
RECURSIVE BestCategory(_, _, _, _)
BestCategory(words, i, category, maxMatches) ==
    IF i > Len(categories) THEN category
    ELSE IF Matches(words, categories[i][2]) > maxMatches
    THEN BestCategory(words, i + 1, categories[i][1], Matches(words, categories[i][2]))
    ELSE BestCategory(words, i + 1, category, maxMatches)

generateAnimal(words) ==
    IF ArrayIncludes(words, "dog") \/ ArrayIncludes(words, "puppy")
    THEN Returned("Group", "dog", "0x8B4513")
    ELSE IF ArrayIncludes(words, "cat") \/ ArrayIncludes(words, "kitten")
    THEN Returned("Group", "cat", "0x696969")
    ELSE IF ArrayIncludes(words, "bird")
    THEN Returned("Group", "bird", "0x4169E1")
    ELSE Returned("Group", "genericAnimal", "0x8B7355")

(* generateAirplane and generateBoat are not defined *)
generateVehicle(words) ==
    IF ArrayIncludes(words, "plane") \/ ArrayIncludes(words, "aircraft") THEN Throws
    ELSE IF ArrayIncludes(words, "boat") \/ ArrayIncludes(words, "ship") THEN Throws
    ELSE Returned("Group", "detailedCar",
                  IF ArrayIncludes(words, "red") THEN "0xFF4444"
                  ELSE IF ArrayIncludes(words, "blue") THEN "0x4444FF"
                  ELSE IF ArrayIncludes(words, "green") THEN "0x44FF44"
                  ELSE IF ArrayIncludes(words, "yellow") THEN "0xFFFF44"
                  ELSE "0x888888")

(* createEnhancedProceduralModel of the service *)
hfCreateEnhancedProceduralModel(prompt) ==
    IF ~IsString(prompt) THEN Throws
    ELSE LET words == WordsOf(prompt)
             category == BestCategory(words, 1, "abstract", 0)
         IN  CASE category = "animals" -> generateAnimal(words)
               [] category = "vehicles" -> generateVehicle(words)
               [] category = "buildings" -> Returned("Group", "enhancedBuilding", "0x888888")
               [] category = "furniture" -> Returned("Group", "enhancedFurniture", "0x8B4513")
               [] category = "nature" -> Returned("Group", "enhancedNature", "0x8B4513")
               [] OTHER -> Returned("Group", "enhancedAbstract", "0x6666FF")

(* words.some(word => list.includes(word)) *)
some(words, list) == \E i \in 1..Len(words) : words[i] \in list

isVehiclePrompt(words) ==
    some(words, {"car", "truck", "plane", "boat", "vehicle", "aircraft", "ship"})

isBuildingPrompt(words) ==
    some(words, {"building", "house", "tower", "castle", "structure", "architecture"})

isAnimalPrompt(words) ==
    some(words, {"dog", "cat", "bird", "animal", "creature", "pet", "wildlife"})

isAbstractPrompt(words) ==
    some(words, {"abstract", "art", "sculpture", "crystal", "spiral", "form"})

(* generateModelFromImageAnalysis: generateAdvancedBuilding,               *)
(* generateAdvancedAnimal and generateAdvancedAbstract are not defined     *)
generateModelFromImageAnalysis(prompt) ==
    IF ~IsString(prompt) THEN Throws
    ELSE LET words == WordsOf(prompt)
         IN  IF isVehiclePrompt(words)
             THEN Returned("Group", "advancedVehicle", "dominantColor")
             ELSE IF isBuildingPrompt(words) THEN Throws
             ELSE IF isAnimalPrompt(words) THEN Throws
             ELSE IF isAbstractPrompt(words) THEN Throws
             ELSE Returned("Group", "adaptiveModel", "dominantColor")

NoResult == [status |-> "none", kind |-> "none", geometry |-> "none", color |-> "none"]

ConvertVocabulary == {"car", "house", "dog", "art", "lamp", "boat", "Tower"}

ConvertPrompts == PromptsUpTo(ConvertVocabulary, MaxConvertWords)

ConvertIdle ==
    /\ cvPrompt = ""
    /\ cvPc = "idle"
    /\ cvResult = NoResult


(* convertImageTo3D(imageBlob, prompt): the promise is created, the        *)
(* handlers are set and the image starts to load                           *)
ConvertImageTo3D ==
    \E prompt \in ConvertPrompts :
        /\ cvPc = "idle"
        /\ cvPrompt' = prompt
        /\ cvPc' = "pending"
        /\ UNCHANGED cvResult
        /\ UNCHANGED notCv

(* a handler of the image ran: resolve(model) was reached, or the handler  *)
(* threw before it and nothing settles the promise                         *)
HandlerRan(model) ==
    /\ cvPc = "pending"
    /\ IF model = Throws
       THEN /\ cvPc' = "abandoned"
            /\ UNCHANGED cvResult
       ELSE /\ cvPc' = "resolved"
            /\ cvResult' = model
    /\ UNCHANGED cvPrompt
    /\ UNCHANGED notCv

(* what each handler computes, for every prompt of a call *)
OnLoadModels == [prompt \in ConvertPrompts |-> generateModelFromImageAnalysis(prompt)]

OnErrorModels == [prompt \in ConvertPrompts |-> hfCreateEnhancedProceduralModel(prompt)]

(* img.onload *)
ImgOnLoad == HandlerRan(OnLoadModels[cvPrompt])

(* img.onerror *)
ImgOnError == HandlerRan(OnErrorModels[cvPrompt])


(***************************************************************************)
(* UsageManager (usage-manager.js) and the SupabaseAuth it is given        *)
(* (DEPLOYMENT_GUIDE.md).  generate3DModel of the service is one request   *)
(* that returns a model or rejects.                                        *)
(***************************************************************************)
FreeGenerations == 3

Usage(used, ownToken) == [free_generations_used |-> used, has_own_token |-> ownToken]

Denied(reason) == [canGenerate |-> FALSE, userType |-> "none", reason |-> reason]

Allowed(userType) == [canGenerate |-> TRUE, userType |-> userType, reason |-> "none"]

(* checkAnonymousUsage *)
checkAnonymousUsage(hasUsedFree) ==
    IF hasUsedFree THEN Denied("anonymous_limit_reached") ELSE Allowed("anonymous")

(* getUserUsage returned null: no row *)
NoUsage == [free_generations_used |-> -1, has_own_token |-> FALSE]

(* checkRegisteredUsage, given what getUserUsage returned *)
checkRegisteredUsage(row) ==
    IF row = NoUsage THEN Denied("usage_data_error")
    ELSE IF row.has_own_token THEN Allowed("own_token")
    ELSE IF FreeGenerations - row.free_generations_used > 0 THEN Allowed("registered")
    ELSE Denied("free_limit_reached")

UmCall(pc, permission, invoked, read) ==
    [pc |-> pc, permission |-> permission, invoked |-> invoked, read |-> read]

UsageConstructed(user, hasUsedFree, row) ==
    /\ loggedIn = user
    /\ freeGenerationUsed = hasUsedFree
    /\ dbUsage = row
    /\ umCalls = <<>>

UsageIdle == UsageConstructed(FALSE, FALSE, Usage(0, FALSE))

OverlapIdle == ggCalls = <<>>

HitsIdle == hitTimes = {}

AnimIdle ==
    /\ animStart = 0
    /\ animNow = 0
    /\ animProgress = 0
    /\ frames = 0

TokensIdle ==
    /\ storedToken = Null
    /\ hfTokenItem = Null
    /\ givenToken = Null
    /\ apiToken = Null
    /\ consulted = FALSE
    /\ authorization = "none"
    /\ services = 0

ClearIdle == clearedLoads = {} /\ clears = 0

RestIdle == OverlapIdle /\ HitsIdle /\ AnimIdle /\ TokensIdle /\ ClearIdle

SvcIdle == LibIdle /\ HfIdle /\ ConvertIdle /\ UsageIdle /\ RestIdle

(* the permission is not looked at *)
PermittedUnchecked(cs, c, permission) ==
    umCalls' = [cs EXCEPT ![c] = UmCall("generating", permission, TRUE, 0)]

(* executeGeneration after its permission is known: throw, or call         *)
(* hfService.generate3DModel                                               *)
Permitted(cs, c, permission) ==
    IF permission.canGenerate
    THEN umCalls' = [cs EXCEPT ![c] = UmCall("generating", permission, TRUE, 0)]
    ELSE umCalls' = [cs EXCEPT ![c] = UmCall("threw", permission, FALSE, 0)]

(* executeGeneration(prompt): checkGenerationPermission reads localStorage *)
(* for an anonymous browser, or awaits getUserUsage for a user             *)
ExecuteGeneration ==
    /\ Len(umCalls) < MaxUmCalls
    /\ calls + Len(umCalls) < MaxAppCalls
    /\ IF ~loggedIn
       THEN Permitted(Append(umCalls, UmCall("call", Denied("none"), FALSE, 0)),
                      Len(umCalls) + 1, checkAnonymousUsage(freeGenerationUsed))
       ELSE umCalls' = Append(umCalls, UmCall("readingUsage", Denied("none"), FALSE, 0))
    /\ UNCHANGED <<loggedIn, freeGenerationUsed, dbUsage>>
    /\ UNCHANGED notUm

(* getUserUsage settles with the row of the user, or with null on an error *)
GetUserUsageSettles ==
    \E c \in 1..Len(umCalls) : \E ok \in BOOLEAN :
        /\ umCalls[c].pc = "readingUsage"
        /\ Permitted(umCalls, c, checkRegisteredUsage(IF ok THEN dbUsage ELSE NoUsage))
        /\ UNCHANGED <<loggedIn, freeGenerationUsed, dbUsage>>
        /\ UNCHANGED notUm

(* generate3DModel settles: on a rejection executeGeneration rethrows; on  *)
(* a result trackUsage sets the localStorage item, or calls useGeneration, *)
(* which awaits getUserUsage                                               *)
GenerationSettles ==
    \E c \in 1..Len(umCalls) : \E ok \in BOOLEAN :
        LET userType == umCalls[c].permission.userType
        IN  /\ umCalls[c].pc = "generating"
            /\ IF ~ok
               THEN /\ umCalls' = [umCalls EXCEPT ![c] = [@ EXCEPT !.pc = "failed"]]
                    /\ UNCHANGED freeGenerationUsed
               ELSE IF userType = "anonymous"
               THEN /\ umCalls' = [umCalls EXCEPT ![c] = [@ EXCEPT !.pc = "returned"]]
                    /\ freeGenerationUsed' = TRUE
               ELSE IF userType = "registered"
               THEN /\ umCalls' = [umCalls EXCEPT ![c] = [@ EXCEPT !.pc = "tracking"]]
                    /\ UNCHANGED freeGenerationUsed
               ELSE /\ umCalls' = [umCalls EXCEPT ![c] = [@ EXCEPT !.pc = "returned"]]
                    /\ UNCHANGED freeGenerationUsed
            /\ UNCHANGED <<loggedIn, dbUsage>>
            /\ UNCHANGED notUm

(* useGeneration: getUserUsage settled; with a row, the update is built    *)
(* from the row that was read                                              *)
UseGenerationReads ==
    \E c \in 1..Len(umCalls) : \E ok \in BOOLEAN :
        /\ umCalls[c].pc = "tracking"
        /\ IF ok
           THEN umCalls' = [umCalls EXCEPT ![c] =
                    [@ EXCEPT !.pc = "updating", !.read = dbUsage.free_generations_used]]
           ELSE umCalls' = [umCalls EXCEPT ![c] = [@ EXCEPT !.pc = "returned"]]
        /\ UNCHANGED <<loggedIn, freeGenerationUsed, dbUsage>>
        /\ UNCHANGED notUm

(* useGeneration: updateUserUsage writes free_generations_used + 1 of the  *)
(* row that was read; executeGeneration returns the model                  *)
UseGenerationUpdates ==
    \E c \in 1..Len(umCalls) :
        /\ umCalls[c].pc = "updating"
        /\ dbUsage' = [dbUsage EXCEPT !.free_generations_used = umCalls[c].read + 1]
        /\ umCalls' = [umCalls EXCEPT ![c] = [@ EXCEPT !.pc = "returned"]]
        /\ UNCHANGED <<loggedIn, freeGenerationUsed>>
        /\ UNCHANGED notUm

(***************************************************************************)
(* generateGeometry started while an earlier call is pending.  The         *)
(* generate button is disabled during a generation (main.js:883, 956) but  *)
(* the keydown listener of the prompt input and the click listener of a    *)
(* history item call generateGeometry whenever the event fires.  A call on *)
(* the procedural path awaits promises that are already settled, so no     *)
(* event is handled before it ends; a call on the token path awaits the    *)
(* answer of the inference API.                                            *)
(***************************************************************************)
GgCall(prompt, pc, plan, model, overlaps) ==
    [prompt |-> prompt, pc |-> pc, plan |-> plan, model |-> model,
     overlaps |-> overlaps]

PendingCalls(cs) == {c \in 1..Len(cs) : cs[c].pc = "remote"}

(* generateGeometry with the given text in the prompt input *)
GenerateGeometryFrom(input) ==
    LET prompt == trim(input)
        made == generateAIStyledProceduralModel(prompt)
        id == Len(heap) + 1
    IN  /\ calls < MaxAppCalls
        /\ calls' = calls + 1
        /\ uiPrompt' = input
        /\ IF prompt = ""
           THEN /\ notification' = "Please enter a description"
                /\ UNCHANGED <<heap, scene, objects, disposed, history, usage>>
                /\ UNCHANGED <<strategyCalls, networkRequests, gateChecks, ggCalls>>
           ELSE IF ~canGenerate(useHF)
           THEN /\ gateChecks' = gateChecks + 1
                /\ notification' = IF useHF THEN "No AI credits remaining"
                                   ELSE "Generation limit reached"
                /\ UNCHANGED <<heap, scene, objects, disposed, history, usage>>
                /\ UNCHANGED <<strategyCalls, networkRequests, ggCalls>>
           ELSE IF useHF
           THEN /\ Cardinality(PendingCalls(ggCalls)) < MaxPending
                /\ gateChecks' = gateChecks + 1
                /\ \E plan \in {"inference", "fallback", "never"} :
                      ggCalls' = Append(ggCalls,
                          GgCall(prompt, "remote", plan, NoModel, PendingCalls(ggCalls)))
                /\ strategyCalls' = strategyCalls + 1
                /\ networkRequests' = networkRequests + 1
                /\ UNCHANGED <<heap, scene, objects, disposed, history, usage,
                               notification>>
           ELSE /\ gateChecks' = gateChecks + 1
                /\ strategyCalls' = strategyCalls + 1
                /\ disposed' = disposed \cup DisposedBy(heap, objects)
                /\ IF made.status = "returned"
                   THEN /\ heap' = SetPosition(NewObject(heap, "procedural", made),
                                               id, 0, 0, 0)
                        /\ scene' = (scene \ Range(objects)) \cup {id}
                        /\ objects' = <<id>>
                        /\ history' = addToHistory(history, prompt)
                        /\ notification' = "Enhanced procedural generation completed!"
                   ELSE /\ scene' = scene \ Range(objects)
                        /\ objects' = <<>>
                        /\ notification' = "Generation failed"
                        /\ UNCHANGED <<heap, history>>
                /\ usage' = incrementUsage(usage, FALSE)
                /\ UNCHANGED <<networkRequests, ggCalls>>
        /\ UNCHANGED <<useHF, hasToken, ugPc, ugPrompt, ugPlan, ugModel>>
        /\ UNCHANGED <<modelCache, now>>
        /\ UNCHANGED <<lgVars, fmVars, prVars, tryVars, svcBase, evVars, animVars, tokVars, clVars>>

(* Enter in the prompt input *)
KeydownEnter == GenerateGeometryFrom(uiPrompt)

(* click on an item of the history list *)
HistoryItemClicked == \E i \in 1..Len(history) : GenerateGeometryFrom(history[i])

(* hfService.generate3DModel of a pending call resolved: the scene is     *)
(* cleared and the model added, then generateGeometry counts the          *)
(* generation                                                             *)
PendingCallSettles ==
    \E c \in PendingCalls(ggCalls) :
        /\ ggCalls[c].plan \in {"inference", "fallback"}
        /\ heap' = NewObject(heap,
                       IF ggCalls[c].plan = "inference" THEN "inference" ELSE "procedural",
                       IF ggCalls[c].plan = "inference" THEN InferredModel
                       ELSE createEnhancedProceduralModel)
        /\ ggCalls' = [ggCalls EXCEPT ![c] =
                          [@ EXCEPT !.pc = "done", !.model = Len(heap) + 1]]
        /\ scene' = (scene \ Range(objects)) \cup {Len(heap) + 1}
        /\ disposed' = disposed \cup DisposedBy(heap, objects)
        /\ objects' = <<>>
        /\ notification' = "AI generation completed!"
        /\ usage' = incrementUsage(usage, TRUE)
        /\ UNCHANGED history
        /\ UNCHANGED <<genVars, uiVars, lgVars, fmVars, prVars, tryVars, svcBase>>
        /\ UNCHANGED <<evVars, animVars, tokVars, clVars>>

(***************************************************************************)
(* HFTokenManager (hf-token-manager.js) and the constructor of             *)
(* HuggingFaceService.  The manager keeps the user's token in the          *)
(* localStorage item 'user_hf_token' (config.js:36); the service reads     *)
(* process.env, which a browser does not have, and the item 'hf_token',    *)
(* which the token setup page and the usage manager write.                 *)
(***************************************************************************)
(* String.prototype.startsWith *)
startsWith(s, prefix) == Len(s) >= Len(prefix) /\ SubSeq(s, 1, Len(prefix)) = prefix

(* checkToken: token && token.startsWith('hf_') && token.length > 10 *)
checkToken(token) == Truthy(token) /\ startsWith(token, "hf_") /\ Len(token) > 10

(* getToken *)
getToken == IF hasToken THEN storedToken ELSE Null

(* what a caller may hand to setToken *)
TokenInputs == {Null, "", "token", "hf_", "hf_abc", "hf_abcdefgh", "hf_ijklmnop"}

(* what other pages store under 'hf_token' *)
ServiceTokens == {"hf_ownertoken", "hf_abcdefgh"}

(* setToken(token): throws on a token that is empty or lacks the prefix *)
SetTokenCall ==
    /\ \E token \in TokenInputs :
          IF ~Truthy(token) \/ ~startsWith(token, "hf_")
          THEN UNCHANGED <<storedToken, hasToken>>
          ELSE /\ storedToken' = token
               /\ hasToken' = TRUE
    /\ UNCHANGED <<hfTokenItem, givenToken, apiToken, consulted, authorization, services>>
    /\ UNCHANGED <<uiPrompt, useHF, ugPc, ugPrompt, ugPlan, ugModel>>
    /\ UNCHANGED <<lgVars, fmVars, prVars, appVars, genVars, tryVars>>
    /\ UNCHANGED <<svcBase, ovVars, evVars, animVars, clVars>>

(* removeToken *)
RemoveTokenCall ==
    /\ storedToken' = Null
    /\ hasToken' = FALSE
    /\ UNCHANGED <<hfTokenItem, givenToken, apiToken, consulted, authorization, services>>
    /\ UNCHANGED <<uiPrompt, useHF, ugPc, ugPrompt, ugPlan, ugModel>>
    /\ UNCHANGED <<lgVars, fmVars, prVars, appVars, genVars, tryVars>>
    /\ UNCHANGED <<svcBase, ovVars, evVars, animVars, clVars>>

(* the setup page saves or clears the item 'hf_token' *)
SaveServiceToken ==
    /\ \E token \in ServiceTokens \cup {Null} :
          /\ token # hfTokenItem
          /\ hfTokenItem' = token
    /\ UNCHANGED <<storedToken, givenToken, apiToken, consulted, authorization, services>>
    /\ UNCHANGED <<coreVars, svcBase, ovVars, evVars, animVars, clVars>>

(* process.env.HUGGINGFACE_TOKEN: typeof process is 'undefined' in a page *)
EnvToken == Null

(* initializeToken: the first truthy source, or null *)
initializeToken ==
    IF Truthy(EnvToken) THEN EnvToken
    ELSE IF Truthy(hfTokenItem) THEN hfTokenItem
    ELSE Null

(* the constructor: apiToken = ownerToken; initializeToken() when it is    *)
(* falsy; and then initializeToken() once more, in every case              *)
Constructed(ownerToken) ==
    /\ apiToken' = initializeToken
    /\ consulted' = TRUE

(* new HuggingFaceService(ownerToken): by generateWithUserToken with the   *)
(* token of the manager, or by the application with none or its own        *)
NewHuggingFaceService ==
    /\ services < MaxServices
    /\ services' = services + 1
    /\ \E ownerToken \in {Null, "hf_ownertoken", getToken} :
          /\ givenToken' = ownerToken
          /\ Constructed(ownerToken)
    /\ authorization' = "none"
    /\ UNCHANGED <<storedToken, hfTokenItem>>
    /\ UNCHANGED <<coreVars, svcBase, ovVars, evVars, animVars, clVars>>

(* directAPICall builds the headers of a request *)
SendRequest ==
    /\ services > 0
    /\ authorization' = IF Truthy(apiToken) THEN "Bearer " \o apiToken ELSE "absent"
    /\ UNCHANGED <<storedToken, hfTokenItem, givenToken, apiToken, consulted, services>>
    /\ UNCHANGED <<coreVars, svcBase, ovVars, evVars, animVars, clVars>>


LegacyNext == LegacyStart \/ LegacyCreateObject \/ LegacyFinish

LegacyInit ==
    /\ lgPrompt \in LegacyPrompts
    /\ lgPc = "call"
    /\ lgShapes = <<>>
    /\ lgColors = <<>>
    /\ lgIndex = 0
    /\ lgObjects = <<>>
    /\ MatchIdle
    /\ ProceduralIdle
    /\ AppIdle /\ GenIdle /\ TryIdle /\ UiIdle /\ SvcIdle

SpecLegacy == LegacyInit /\ [][LegacyNext]_vars

(***************************************************************************)
(* Specification of the legacy synthesis with the entrance animation of    *)
(* its objects: the clock advances and the browser runs animation frames,  *)
(* or does not.                                                            *)
(***************************************************************************)
AnimPrompts == {"cube", "red cube sphere", "blue", "sphere cube"}

AnimInit ==
    /\ lgPrompt \in AnimPrompts
    /\ lgPc = "call"
    /\ lgShapes = <<>>
    /\ lgColors = <<>>
    /\ lgIndex = 0
    /\ lgObjects = <<>>
    /\ MatchIdle
    /\ ProceduralIdle
    /\ AppIdle /\ GenIdle /\ TryIdle /\ UiIdle /\ SvcIdle

AnimNext ==
    \/ LegacyStart
    \/ CreateObjectCall
    \/ AnimClockAdvances
    \/ AnimationFrame
    \/ LegacyFinish

SpecAnim == AnimInit /\ [][AnimNext]_vars

(***************************************************************************)
(* Specification of the asset resolver: findBestMatch applied to a prompt  *)
(***************************************************************************)
ResolveInit ==
    /\ fmPrompt \in MatchPrompts
    /\ fmPc = "call"
    /\ fmResult = Undefined
    /\ LegacyIdle
    /\ ProceduralIdle
    /\ AppIdle /\ GenIdle /\ TryIdle /\ UiIdle /\ SvcIdle

ResolveNext == FindBestMatchCall

SpecResolve == ResolveInit /\ [][ResolveNext]_vars

(***************************************************************************)
(* Specification of the procedural synthesizer: extractShapes and          *)
(* generateProceduralModel applied to a prompt                             *)
(***************************************************************************)
ProceduralInit ==
    /\ prPrompt \in ProceduralPrompts
    /\ prPc = "call"
    /\ prShapes = <<>>
    /\ prModel = Throws
    /\ LegacyIdle
    /\ MatchIdle
    /\ AppIdle /\ GenIdle /\ TryIdle /\ UiIdle /\ SvcIdle

ProceduralNext == ExtractShapesCall \/ GenerateProceduralModelCall

SpecProcedural == ProceduralInit /\ [][ProceduralNext]_vars

(***************************************************************************)
(* Specification of the result cache: cacheModel and getCachedModel called *)
(* in any order while the clock advances.  The cached model is one object. *)
(***************************************************************************)
CacheInit ==
    /\ heap = NewObject(<<>>, "procedural", generateTree)
    /\ scene = {}
    /\ objects = <<>>
    /\ disposed = {}
    /\ history = <<>>
    /\ usage = [procedural |-> 0, hf |-> 0]
    /\ notification = "none"
    /\ GenIdle /\ TryIdle /\ UiIdle /\ SvcIdle /\ LexIdle

CacheNext ==
    \/ CacheModelFresh
    \/ CacheModelAgain
    \/ GetCachedModelHit
    \/ Tick

SpecCache == CacheInit /\ [][CacheNext]_vars

(***************************************************************************)
(* Specification of the orchestrator: generateGeometryDirect is called     *)
(* with a prompt, one call after the other, while the clock advances and   *)
(* abandoned requests settle.                                              *)
(***************************************************************************)
GenInit == AppIdle /\ GenIdle /\ TryIdle /\ UiIdle /\ SvcIdle /\ LexIdle

GenNext ==
    \/ GenerateGeometryDirectCall
    \/ InvokeStrategy
    \/ StrategyResolves
    \/ StrategyRejects
    \/ StrategyTimesOut
    \/ AbandonedSettles
    \/ AllStrategiesFailed
    \/ DisplayResult
    \/ Tick

SpecGen == GenInit /\ [][GenNext]_vars

(***************************************************************************)
(* Specification of the orchestrator called with prompts that differ in    *)
(* letter case and in whitespace only.                                     *)
(***************************************************************************)
VariantNext ==
    \/ GenerateGeometryDirectVariant
    \/ InvokeStrategy
    \/ StrategyResolves
    \/ StrategyRejects
    \/ StrategyTimesOut
    \/ AbandonedSettles
    \/ AllStrategiesFailed
    \/ DisplayResult
    \/ Tick

SpecVariant == GenInit /\ [][VariantNext]_vars

(***************************************************************************)
(* Specification of the generate handler.  The usage counters are kept in  *)
(* localStorage and survive a reload: a run starts with no procedural      *)
(* generation counted or one short of the limit.                           *)
(***************************************************************************)
AppInit ==
    /\ heap = <<>>
    /\ scene = {}
    /\ objects = <<>>
    /\ disposed = {}
    /\ history = <<>>
    /\ usage \in {[procedural |-> 0, hf |-> 0],
                  [procedural |-> AnonymousProceduralLimit - 1, hf |-> 0]}
    /\ notification = "none"
    /\ GenIdle /\ TryIdle /\ UiIdle /\ SvcIdle /\ LexIdle

AppNext ==
    \/ TypePrompt
    \/ ToggleHF
    \/ SetToken
    \/ RemoveToken
    \/ GenerateGeometry
    \/ UserTokenSettles
    \/ ProceduralSettles

SpecApp == AppInit /\ [][AppNext]_vars

(* a promise that resolves has its continuation run by the event loop *)
SpecAppFair == SpecApp /\ WF_vars(UserTokenSettles) /\ WF_vars(ProceduralSettles)

(***************************************************************************)
(* Specification of the asset library: loadModel is called for any file at *)
(* any time while earlier loads are in flight; a fetch succeeds or fails.  *)
(***************************************************************************)
LibInit ==
    /\ AppIdle /\ GenIdle /\ TryIdle /\ UiIdle /\ LexIdle
    /\ LibIdle /\ HfIdle /\ ConvertIdle /\ UsageIdle
    /\ RestIdle

LibNext ==
    \/ LoadModelCall
    \/ LoaderOnLoad
    \/ LoaderOnError
    \/ LoadModelResumes

SpecLib == LibInit /\ [][LibNext]_vars

(***************************************************************************)
(* Specification of the asset library with clearCache called at any time.  *)
(***************************************************************************)
LibClearNext ==
    \/ LoadModelCall
    \/ LoaderOnLoad
    \/ LoaderOnError
    \/ LoadModelResumes
    \/ ClearCache

SpecLibClear == LibInit /\ [][LibClearNext]_vars


(***************************************************************************)
(* Specification of the inference client: generate3DModel calls that may   *)
(* overlap, on a service constructed with the stored count of the day.     *)
(***************************************************************************)
HfInit ==
    /\ \E count \in {0, DailyLimit - 1, DailyLimit} : HfConstructed(count)
    /\ AppIdle /\ GenIdle /\ TryIdle /\ UiIdle /\ LexIdle /\ LibIdle /\ ConvertIdle /\ UsageIdle
    /\ RestIdle

HfNext ==
    \/ Generate3DModel
    \/ RateLimitWaitEnds
    \/ DirectFetchSettles
    \/ StableDiffusionSettles
    \/ HfTick

SpecHf == HfInit /\ [][HfNext]_vars


(***************************************************************************)
(* Specification of convertImageTo3D called with a prompt and an image     *)
(* that loads or fails to load.  The browser fires one of the two handlers *)
(* of an image whose src was set.                                          *)
(***************************************************************************)
ConvertInit ==
    /\ ConvertIdle
    /\ AppIdle /\ GenIdle /\ TryIdle /\ UiIdle /\ LexIdle /\ LibIdle /\ HfIdle /\ UsageIdle
    /\ RestIdle

ConvertNext == ConvertImageTo3D \/ ImgOnLoad \/ ImgOnError

SpecConvert == ConvertInit /\ [][ConvertNext]_vars

SpecConvertFair == SpecConvert /\ WF_vars(ImgOnLoad \/ ImgOnError)


(***************************************************************************)
(* Specification of the usage manager: executeGeneration calls that may    *)
(* overlap, for an anonymous browser, a registered user with some free     *)
(* generations used, or a user with an own token.                          *)
(***************************************************************************)
UsageStart ==
    \/ \E hasUsedFree \in BOOLEAN :
           UsageConstructed(FALSE, hasUsedFree, Usage(0, FALSE))
    \/ \E used \in {0, FreeGenerations - 1, FreeGenerations} :
           UsageConstructed(TRUE, FALSE, Usage(used, FALSE))
    \/ UsageConstructed(TRUE, FALSE, Usage(0, TRUE))

UsageInit ==
    /\ UsageStart
    /\ AppIdle /\ GenIdle /\ TryIdle /\ UiIdle /\ LexIdle
    /\ LibIdle /\ HfIdle /\ ConvertIdle
    /\ RestIdle

UsageNext ==
    \/ ExecuteGeneration
    \/ GetUserUsageSettles
    \/ GenerationSettles
    \/ UseGenerationReads
    \/ UseGenerationUpdates

SpecUsage == UsageInit /\ [][UsageNext]_vars


(***************************************************************************)
(* Specification of the two usage gates of the page: the generate handler  *)
(* with canGenerate, and executeGeneration of the usage manager, called in *)
(* any order and overlapping.                                              *)
(***************************************************************************)
GateInit ==
    /\ heap = <<>>
    /\ scene = {}
    /\ objects = <<>>
    /\ disposed = {}
    /\ history = <<>>
    /\ usage \in {[procedural |-> 0, hf |-> 0],
                  [procedural |-> AnonymousProceduralLimit - 1, hf |-> 0]}
    /\ notification = "none"
    /\ UsageStart
    /\ GenIdle /\ TryIdle /\ UiIdle /\ LexIdle
    /\ LibIdle /\ HfIdle /\ ConvertIdle
    /\ RestIdle

GateNext == AppNext \/ UsageNext

SpecGate == GateInit /\ [][GateNext]_vars

(***************************************************************************)
(* Specification of generateGeometry started from the keyboard and from    *)
(* the history list at any time, also while earlier calls are pending.     *)
(***************************************************************************)
OverlapNext ==
    \/ TypePrompt
    \/ ToggleHF
    \/ SetToken
    \/ RemoveToken
    \/ KeydownEnter
    \/ HistoryItemClicked
    \/ PendingCallSettles

SpecOverlap == AppInit /\ [][OverlapNext]_vars

(***************************************************************************)
(* Specification of the token manager and of the construction of the       *)
(* inference client.  The manager is constructed on whatever the item      *)
(* 'user_hf_token' holds from earlier visits.                              *)
(***************************************************************************)
TokenInit ==
    /\ heap = <<>>
    /\ scene = {}
    /\ objects = <<>>
    /\ disposed = {}
    /\ history = <<>>
    /\ usage = [procedural |-> 0, hf |-> 0]
    /\ notification = "none"
    /\ GenIdle /\ TryIdle /\ LexIdle
    /\ LibIdle /\ HfIdle /\ ConvertIdle /\ UsageIdle
    /\ OverlapIdle /\ HitsIdle /\ AnimIdle /\ ClearIdle
    /\ uiPrompt = "" /\ useHF = FALSE
    /\ ugPc = "idle" /\ ugPrompt = "" /\ ugPlan = "none" /\ ugModel = NoModel
    /\ storedToken \in {Null, "hf_abcdefgh"}
    /\ hasToken = checkToken(storedToken)
    /\ hfTokenItem = Null
    /\ givenToken = Null
    /\ apiToken = Null
    /\ consulted = FALSE
    /\ authorization = "none"
    /\ services = 0

TokenNext ==
    \/ SetTokenCall
    \/ RemoveTokenCall
    \/ SaveServiceToken
    \/ NewHuggingFaceService
    \/ SendRequest

SpecToken == TokenInit /\ [][TokenNext]_vars


(***************************************************************************)
(* Properties.                                                             *)
(***************************************************************************)

(* the words of a prompt that are keywords of a lexicon, in prompt order *)
KeywordsOf(map, prompt) == SelectSeq(WordsOf(prompt), LAMBDA w : HasOwn(map, w))

ShapeNames == {shapeMap[i][2] : i \in 1..Len(shapeMap)}

(* C8: procedural synthesis is total.  For every non-empty prompt         *)
(* extractShapes returns at least one shape, generateProceduralModel      *)
(* returns a model and does not throw, and a prompt without a shape       *)
(* keyword gets the default box.                                          *)
C8_ProceduralTotal ==
    (prPrompt # "" /\ prPc \in {"extracted", "done"}) =>
        /\ Len(prShapes) >= 1
        /\ \A i \in 1..Len(prShapes) : prShapes[i] \in ShapeNames
        /\ Len(KeywordsOf(shapeMap, prPrompt)) = 0 => prShapes = <<"cube">>
        /\ prPc = "done" =>
             /\ prModel.status = "returned"
             /\ prModel.kind \in {"Mesh", "Group"}
             /\ (prModel.kind = "Mesh" /\ Len(KeywordsOf(basicShapeMap, prPrompt)) = 0)
                    => prModel.geometry = "BoxGeometry(1,1,1)"

(* C9: legacyProceduralGeneration creates one object per shape keyword,   *)
(* in prompt order (one cube without shape keyword); object i of n takes  *)
(* the i-th color keyword or a palette color and sits at x = 2*i - n,     *)
(* y = 1, z = 0; "red cube blue sphere" gives a red box and a blue sphere *)
C9_LegacyLayout ==
    lgPc = "done" =>
        LET shapeWords == KeywordsOf(shapeMap, lgPrompt)
            colorWords == KeywordsOf(colorMap, lgPrompt)
            n == IF Len(shapeWords) = 0 THEN 1 ELSE Len(shapeWords)
            ShapeAt(i) == IF Len(shapeWords) = 0 THEN "cube"
                          ELSE OwnValue(shapeMap, shapeWords[i], 1)
        IN  /\ Len(lgObjects) = n
            /\ \A i \in 1..n :
                 /\ lgObjects[i].geometry = ObjectGeometry(ShapeAt(i))
                 /\ IF i <= Len(colorWords)
                    THEN lgObjects[i].color = OwnValue(colorMap, colorWords[i], 1)
                    ELSE lgObjects[i].color \in RandomColors
                 /\ lgObjects[i].x = 2 * (i - 1) - n
                 /\ lgObjects[i].y = 1
                 /\ lgObjects[i].z = 0
            /\ \A i, j \in 1..n : i # j => lgObjects[i].x # lgObjects[j].x
            /\ lgPrompt = "red cube blue sphere" =>
                 lgObjects =
                    << [geometry |-> "BoxGeometry(1,1,1)", color |-> "0xff4444",
                        x |-> -2, y |-> 1, z |-> 0],
                       [geometry |-> "SphereGeometry(0.6,32,32)", color |-> "0x4444ff",
                        x |-> 0, y |-> 1, z |-> 0] >>

CatalogFiles == {modelMap[k][2] : k \in 1..Len(modelMap)}

(* C10: findBestMatch returns one catalog file for every prompt, chosen   *)
(* by the first rule that applies: exact keyword, partial keyword,        *)
(* category word list, default RobotExpressive.glb                        *)
C10_FindBestMatchRules ==
    fmPc = "done" =>
        LET words == WordsOf(fmPrompt)
            exact == {i \in 1..Len(words) : HasOwn(modelMap, words[i])}
            partial == {k \in 1..Len(modelMap) :
                          \E i \in 1..Len(words) :
                             \/ includes(words[i], modelMap[k][1])
                             \/ includes(modelMap[k][1], words[i])}
            Min(S) == CHOOSE m \in S : \A o \in S : m <= o
        IN  /\ fmResult \in CatalogFiles
            /\ fmResult =
                 IF exact # {} THEN OwnValue(modelMap, words[Min(exact)], 1)
                 ELSE IF partial # {} THEN modelMap[Min(partial)][2]
                 ELSE IF \E i \in 1..Len(words) : words[i] \in AnimalWords THEN "Horse.glb"
                 ELSE IF \E i \in 1..Len(words) : words[i] \in VehicleWords THEN "ferrari.glb"
                 ELSE IF \E i \in 1..Len(words) : words[i] \in CharacterWords THEN "Soldier.glb"
                 ELSE "RobotExpressive.glb"

(* C6: after any sequence of cacheModel and getCachedModel calls the cache *)
(* holds at most 50 entries, one per key; a call that adds a key adds one  *)
(* key and, when the cache was full, removes exactly one other key and     *)
(* otherwise none; a call that adds no key (cacheModel with a cached       *)
(* prompt, getCachedModel) removes none.                                   *)
C6_CacheBounded ==
    /\ [](Len(modelCache) <= CacheLimit)
    /\ [][LET old == CacheKeys(modelCache)
              new == CacheKeys(modelCache')
          IN  /\ Len(modelCache') = Cardinality(new)
              /\ IF new \subseteq old THEN new = old
                 ELSE /\ Cardinality(new \ old) = 1
                      /\ IF Len(modelCache) = CacheLimit
                         THEN Cardinality(old \ new) = 1
                         ELSE old \subseteq new]_vars

(* the cache is full after more prompts than it holds were submitted, the *)
(* first prompt was submitted again and has been served from the cache     *)
C6_Witness ==
    /\ Len(modelCache) = CacheLimit
    /\ calls > CacheLimit
    /\ \E i \in 1..Len(modelCache) :
          /\ modelCache[i].prompt = PromptName(1)
          /\ modelCache[i].hits > 1
          /\ i > 1

StrategyNames == [i \in 1..Len(strategies) |-> strategies[i].name]

(* the order of the strategy list as the priority states it: remote       *)
(* inference, then the asset catalog, then procedural synthesis           *)
PriorityOrder ==
    <<"Hugging Face", "GLB Models", "Enhanced Procedural", "Basic Procedural">>

(* C1: on a cache miss the strategies are attempted one at a time in the   *)
(* order remote inference, asset catalog, procedural synthesis, so what    *)
(* was attempted so far is a prefix of that order, and the returned model  *)
(* is that of the strategy attempted last; when the remote inference was   *)
(* going to succeed the returned model comes from remote inference.        *)
C1_PriorityOrder ==
    /\ Len(tryAttempted) <= Len(PriorityOrder)
    /\ tryAttempted = SubSeq(PriorityOrder, 1, Len(tryAttempted))
    /\ (tryPc = "returned" /\ ~tryHit /\ tryResult # NoModel /\ tryPlan = "inference")
          => heap[tryResult].origin = "inference"

(* C2: tryAIGeneration never ends with the error of a strategy: the call   *)
(* is idle, between strategies, racing a strategy or returned; a strategy  *)
(* that fails moves the loop to the next strategy; a returned call gives   *)
(* a model, or null after every strategy of the list was attempted.        *)
C2_NeverRejects ==
    /\ [](tryPc \in {"idle", "next", "racing", "returned"})
    /\ [](tryPc = "returned" =>
             IF tryResult = NoModel
             THEN ~tryHit /\ tryAttempted = StrategyNames
             ELSE tryResult \in 1..Len(heap))
    /\ [][(tryPc \in {"next", "racing"} /\ tryPc' # "returned")
             => /\ tryPc' \in {"next", "racing"}
                /\ tryIdx' \in {tryIdx, tryIdx + 1}
                /\ tryResult' = NoModel]_vars

(* every strategy failed and the call returned null *)
C2_Witness ==
    /\ tryPc = "returned"
    /\ tryResult = NoModel
    /\ tryAttempted = StrategyNames

(* C4: a tryAIGeneration call with a cached prompt returns at once a clone *)
(* of the cached model: no strategy is invoked, no network request is      *)
(* issued, the usage counters stay, and the cache changes in the hits of   *)
(* this entry only, which grow by one; a model cached by a miss starts     *)
(* with hits = 1, so the same prompt submitted next leaves hits = 2.       *)
C4_CacheHit ==
    /\ [][(tryPc = "idle" /\ tryPc' # "idle" /\ CacheIndex(modelCache, tryPrompt') # 0)
             => LET i == CacheIndex(modelCache, tryPrompt')
                IN  /\ tryPc' = "returned"
                    /\ tryHit'
                    /\ tryResult' = Len(heap) + 1
                    /\ heap' = Append(heap, heap[modelCache[i].model])
                    /\ tryAttempted' = <<>>
                    /\ strategyCalls' = strategyCalls
                    /\ networkRequests' = networkRequests
                    /\ usage' = usage
                    /\ modelCache' = [modelCache EXCEPT ![i].hits = modelCache[i].hits + 1]]_vars
    /\ [][(tryPc = "racing" /\ tryPc' = "returned")
             => LET i == CacheIndex(modelCache', tryPrompt)
                IN  i # 0 /\ modelCache'[i].hits = 1]_vars

(* a prompt was generated and then submitted again: served from the cache *)
(* with hits = 2                                                           *)
C4_Witness ==
    /\ tryPc = "returned"
    /\ tryHit
    /\ CacheIndex(modelCache, tryPrompt) # 0
    /\ modelCache[CacheIndex(modelCache, tryPrompt)].hits = 2

(* C5: the object returned by a generation is never the object stored in   *)
(* the cache, on a miss as on a hit, and the cached original is never      *)
(* positioned, added to the scene or disposed.                             *)
C5_NoAlias ==
    /\ (tryPc = "returned" /\ tryResult # NoModel)
          => \A i \in 1..Len(modelCache) : modelCache[i].model # tryResult
    /\ \A i \in 1..Len(modelCache) :
          /\ modelCache[i].model \notin scene
          /\ heap[modelCache[i].model].position = Origin
          /\ heap[modelCache[i].model].res \notin disposed

(* the sum of the timeouts of the strategy list *)
RECURSIVE SumOfTimeouts(_)
SumOfTimeouts(i) ==
    IF i > Len(strategies) THEN 0 ELSE strategies[i].timeout + SumOfTimeouts(i + 1)

(* tryAIGeneration alone: a remote attempt that does not answer in time   *)
(* is left at its deadline for the next strategy, the time spent racing   *)
(* stays within the sum of the timeouts, and a call for a string that     *)
(* abandoned the remote attempt returns a procedural model                *)
TryAIGenerationBounded ==
    /\ [](tryElapsed <= SumOfTimeouts(1))
    /\ [][(tryPc = "racing" /\ tryPlan \in {"late", "never"} /\ tryPc' # "racing")
             => /\ tryPc' = "next"
                /\ tryIdx' = tryIdx + 1
                /\ tryElapsed' = tryElapsed + strategies[tryIdx].timeout]_vars
    /\ []((tryPc = "returned" /\ ~tryHit /\ IsString(tryPrompt))
             => /\ tryResult # NoModel
                /\ (\E a \in abandoned : a.call = calls /\ a.plan = "never")
                      => heap[tryResult].origin = "procedural")

(* C3: a generation whose remote inference call never resolves is not      *)
(* blocked forever: every generation that awaits the remote call, on the   *)
(* generateWithUserToken path, eventually completes.                       *)
C3_RemoteNeverBlocks == (ugPc = "remote") ~> (ugPc = "idle")

IsBlank(str) == \A i \in 1..Len(str) : CharAt(str, i) = " "

(* C7: a generateGeometry call with an empty or whitespace-only prompt     *)
(* reports the problem and consults no strategy and no usage gate and      *)
(* issues no request; the scene, the objects, the history, the cache and   *)
(* the usage counters stay as they were.                                   *)
C7_EmptyPrompt ==
    [][(calls' # calls /\ IsBlank(uiPrompt))
          => /\ notification' = "Please enter a description"
             /\ strategyCalls' = strategyCalls
             /\ networkRequests' = networkRequests
             /\ gateChecks' = gateChecks
             /\ UNCHANGED <<heap, scene, objects, disposed, history, usage, modelCache>>
             /\ UNCHANGED <<ugPc, ugPrompt, ugPlan, ugModel>>]_vars

(* an empty prompt was reported while a generated model is displayed *)
C7_Witness ==
    /\ notification = "Please enter a description"
    /\ IsBlank(uiPrompt)
    /\ scene # {}
    /\ Len(history) > 0
    /\ usage.procedural > 0

(* the fetches in flight for a file: its load promises still pending *)
PendingFetches(file) ==
    {p \in 1..Len(promises) : promises[p].file = file /\ promises[p].state = "pending"}

CompletedFetches(file) ==
    {p \in 1..Len(promises) : promises[p].file = file /\ promises[p].state = "resolved"}

ReturnedCalls == {c \in 1..Len(loadCalls) : loadCalls[c].pc = "returned"}

(* at most one fetch in flight per file; what a caller received is an      *)
(* object of its own: not the cached scene, not what another caller got,   *)
(* with a material of its own and the geometry of the scene fetched        *)
OneFetchOwnClone ==
    /\ \A file \in AssetFiles : Cardinality(PendingFetches(file)) <= 1
    /\ \A c \in ReturnedCalls :
        LET r == loadCalls[c].result
        IN  /\ r \in 1..Len(glbObjects)
            /\ glbObjects[r].file = loadCalls[c].file
            /\ \A file \in AssetFiles : r # glbModelCache[file]
            /\ \A p \in 1..Len(promises) : r # promises[p].model
            /\ \A d \in ReturnedCalls \ {c} : r # loadCalls[d].result
            /\ \A o \in 1..Len(glbObjects) : o # r =>
                   glbObjects[o].material # glbObjects[r].material
            /\ \E p \in CompletedFetches(loadCalls[c].file) :
                   glbObjects[r].geometry = glbObjects[promises[p].model].geometry

(* a loadModel call arrives: with a fetch in flight it awaits that fetch,  *)
(* with a completed fetch it returns at once, and in both cases no fetch   *)
(* is issued                                                               *)
ArrivalCoalesced ==
    Len(loadCalls') = Len(loadCalls) + 1 =>
        LET c == loadCalls'[Len(loadCalls')]
        IN  /\ PendingFetches(c.file) # {} =>
                   /\ promises' = promises
                   /\ c.pc = "awaiting"
                   /\ c.promise \in PendingFetches(c.file)
            /\ CompletedFetches(c.file) # {} =>
                   /\ promises' = promises
                   /\ c.pc = "returned"

(* C11: for any interleaving of loadModel calls for one file at most one   *)
(* fetch of the file is in flight; a caller arriving during the fetch      *)
(* awaits that fetch, a caller arriving after it completed is served from  *)
(* the cache without a fetch, and every caller receives a clone of its own *)
(* and never the cached object.                                            *)
C11_LoadsCoalesced == []OneFetchOwnClone /\ [][ArrivalCoalesced]_vars

(* three calls for one file, one that fetched, one that awaited the fetch  *)
(* and one served from the cache, have all returned                        *)
C11_Witness ==
    \E file \in AssetFiles :
        \E a, b, c \in ReturnedCalls :
            /\ loadCalls[a].file = file /\ loadCalls[a].path = "fetch"
            /\ loadCalls[b].file = file /\ loadCalls[b].path = "wait"
            /\ loadCalls[c].file = file /\ loadCalls[c].path = "cache"

(* C12: after optimizeModel the largest bounding-box dimension of every    *)
(* loaded asset equals the target of 3 units, whatever its native size.    *)
C12_LargestDimensionIsTarget ==
    \A file \in AssetFiles :
        IsCached(glbModelCache, file) =>
            FractionEquals(MaxDim(BoxSize(glbObjects[glbModelCache[file]])), TargetSize)

(* C13: any two requests sent to the inference API are at least            *)
(* minRequestInterval (1000 ms) apart, over successive and overlapping     *)
(* generate3DModel calls and including the Stable Diffusion request.       *)
C13_RequestsSpaced ==
    \A i, j \in 1..Len(hfSent) :
        i < j => hfSent[j] - hfSent[i] >= MinRequestInterval

(* C14: requestCount never exceeds dailyLimit, and a generate3DModel call  *)
(* that met the daily-limit error has sent no network request.             *)
C14_DailyLimit ==
    /\ requestCount <= DailyLimit
    /\ \A c \in 1..Len(hfCalls) : hfCalls[c].limitError => hfCalls[c].requests = 0

(* C15: the promise convertImageTo3D returned resolves to a model, for     *)
(* every prompt, whether the image loads or fails to load; it never stays  *)
(* pending.                                                                *)
C15_ConvertResolves ==
    /\ [](cvPc = "resolved" => cvResult.status = "returned")
    /\ (cvPc = "pending") ~> (cvPc = "resolved")

(* executeGeneration calls whose permission was denied *)
DeniedCalls(cs) == {c \in 1..Len(cs) : cs[c].permission.reason # "none"}

GateUntouched ==
    /\ strategyCalls' = strategyCalls
    /\ networkRequests' = networkRequests
    /\ UNCHANGED <<heap, scene, objects, disposed, history, modelCache>>
    /\ UNCHANGED <<usage, freeGenerationUsed, dbUsage>>
    /\ \A c \in 1..Len(umCalls) : umCalls'[c].invoked = umCalls[c].invoked

C17_QuotaRespected ==
    /\ Cardinality({c \in 1..Len(umCalls) :
           /\ umCalls[c].permission.userType = "anonymous"
           /\ umCalls[c].pc = "returned"}) <= 1
    /\ dbUsage.free_generations_used <= FreeGenerations



(***************************************************************************)
(* C18: every generation started through generateGeometry that puts a      *)
(* model into the scene adds its prompt to the front of the history,       *)
(* through generateProcedural as through generateWithUserToken: a step     *)
(* that adds a model to the scene leaves the history as addToHistory of    *)
(* the prompt of the generation, with that prompt first.                   *)
(***************************************************************************)
ModelEntersScene == scene' \ scene # {}

C18_HistoryRecorded ==
    [][ModelEntersScene =>
          /\ history' = addToHistory(history, ugPrompt)
          /\ Head(history') = ugPrompt]_vars


(***************************************************************************)
(* C19: a strategy attempt abandoned on timeout never writes to the result *)
(* cache.  When it settles later its model is discarded: the step leaves   *)
(* the cache, the objects and the result of the call as they were; the     *)
(* cache changes only when the racing strategy wins or a hit is counted;   *)
(* and the entry of the prompt of a call that returned the model of a      *)
(* strategy holds that model, whatever settled in the meantime.            *)
(***************************************************************************)
LateSettles == abandoned' # abandoned /\ abandoned' \subseteq abandoned

StrategyWins == tryPc = "racing" /\ tryPc' = "returned"

HitCounted == tryPc = "idle" /\ tryPc' = "returned" /\ tryHit'

WinnerCached ==
    (tryPc = "returned" /\ ~tryHit /\ tryResult # NoModel)
        => /\ CacheIndex(modelCache, tryPrompt) # 0
           /\ modelCache[CacheIndex(modelCache, tryPrompt)].model = tryResult

C19_LateResultDiscarded ==
    /\ []WinnerCached
    /\ [][/\ LateSettles => UNCHANGED <<modelCache, heap, tryResult>>
          /\ modelCache' # modelCache => StrategyWins \/ HitCounted]_vars

(* the remote attempt of the call timed out and settled later, and the     *)
(* call returned the model of a later strategy, cached under the prompt    *)
C19_Witness ==
    /\ tryPc = "returned" /\ ~tryHit /\ tryResult # NoModel
    /\ tryElapsed >= 45000
    /\ \A a \in abandoned : a.call # calls
    /\ CacheIndex(modelCache, tryPrompt) # 0
    /\ modelCache[CacheIndex(modelCache, tryPrompt)].model = tryResult


(***************************************************************************)
(* C20: within one tryAIGeneration call at most one strategy is running at *)
(* any time, also after a timeout: the attempts of the current call whose  *)
(* promise is pending, the one racing its timer and those abandoned on     *)
(* timeout, are never more than one.                                       *)
(***************************************************************************)
PendingAttempts ==
    {a \in abandoned : a.call = calls}
        \cup (IF tryPc = "racing"
              THEN {[call |-> calls, strategy |-> strategies[tryIdx].name,
                     plan |-> tryPlan]}
              ELSE {})

C20_OneStrategyRunning == Cardinality(PendingAttempts) <= 1


(***************************************************************************)
(* C21: two generation requests for the same prompt that overlap in time   *)
(* are coalesced, or the earlier one is cancelled: of two generateGeometry *)
(* calls for one prompt, the second started while the first was pending,   *)
(* never both ran their strategy to the end and put their model into the   *)
(* scene.                                                                  *)
(***************************************************************************)
Generated(c) == ggCalls[c].pc = "done" /\ ggCalls[c].model # NoModel

C21_OverlapCoalesced ==
    \A j \in 1..Len(ggCalls) : \A i \in ggCalls[j].overlaps :
        ggCalls[i].prompt = ggCalls[j].prompt => ~(Generated(i) /\ Generated(j))


(***************************************************************************)
(* C22: when an insert overflows the result cache, the evicted entry is    *)
(* the one whose most recent insertion or hit is the oldest: no entry that *)
(* stays was last inserted or hit before the evicted one was.              *)
(***************************************************************************)
EntryOf(cache, prompt) == cache[CacheIndex(cache, prompt)]

(* the time of the most recent insertion or hit of an entry *)
LastUse(entry) ==
    IF \E h \in hitTimes : h.prompt = entry.prompt /\ h.at > entry.timestamp
    THEN (CHOOSE h \in hitTimes : h.prompt = entry.prompt).at
    ELSE entry.timestamp

Evicted == CacheKeys(modelCache) \ CacheKeys(modelCache')

C22_EvictsLeastRecentlyUsed ==
    [][\A gone \in Evicted : \A kept \in CacheKeys(modelCache) \ Evicted :
          LastUse(EntryOf(modelCache, gone)) <= LastUse(EntryOf(modelCache', kept))]_vars


(***************************************************************************)
(* C23: the result cache is keyed by the normalized prompt (lowercased,    *)
(* trimmed, whitespace collapsed).  No two entries have prompts with one   *)
(* normal form, and a call whose prompt has the normal form of a cached    *)
(* prompt is served from the cache without invoking a strategy.            *)
(***************************************************************************)
RECURSIVE JoinWords(_)
JoinWords(words) ==
    IF words = <<>> THEN ""
    ELSE IF Len(words) = 1 THEN words[1]
    ELSE words[1] \o " " \o JoinWords(Tail(words))

(* lowercase, trim, collapse whitespace *)
NormalForm(prompt) ==
    IF IsString(prompt)
    THEN JoinWords(SelectSeq(split(toLowerCase(prompt)), LAMBDA w : w # ""))
    ELSE prompt

NormalForms == [prompt \in VariantPrompts |-> NormalForm(prompt)]

OneEntryPerNormalForm ==
    \A i, j \in 1..Len(modelCache) :
        NormalForms[modelCache[i].prompt] = NormalForms[modelCache[j].prompt] => i = j

CallStarts == tryPc = "idle" /\ tryPc' # "idle"

KnownNormalForm(prompt) ==
    \E k \in CacheKeys(modelCache) : NormalForms[k] = NormalForms[prompt]

C23_KeyedByNormalForm ==
    /\ []OneEntryPerNormalForm
    /\ [][(CallStarts /\ KnownNormalForm(tryPrompt'))
            => (tryHit' /\ tryPc' = "returned" /\ strategyCalls' = strategyCalls)]_vars


(***************************************************************************)
(* C24: a usage counter is incremented only after a generation that        *)
(* succeeded, and then the counter of its mode by exactly 1: a step of the *)
(* generate handler that changes a counter put a model into the scene and  *)
(* changed the counters by incrementUsage of the mode, and a step that     *)
(* ends a generation without a model leaves the counters as they were.     *)
(***************************************************************************)
GenerationEnds == ugPc # "idle" /\ ugPc' = "idle"

(* executeGeneration call c returns its model in this step *)
Returns(c) == umCalls[c].pc # "returned" /\ umCalls'[c].pc = "returned"

HandlerCountsOnSuccess ==
    /\ usage' # usage =>
          /\ ModelEntersScene
          /\ usage' = incrementUsage(usage, ugPc = "remote")
    /\ (GenerationEnds /\ ~ModelEntersScene) => usage' = usage

ManagerCountsOnSuccess ==
    /\ \A c \in 1..Len(umCalls) :
          Returns(c) =>
             /\ umCalls[c].permission.userType = "registered"
                   => dbUsage'.free_generations_used = dbUsage.free_generations_used + 1
             /\ umCalls[c].permission.userType = "anonymous" => freeGenerationUsed'
    /\ (dbUsage' # dbUsage \/ freeGenerationUsed' # freeGenerationUsed)
          => \E c \in 1..Len(umCalls) : Returns(c)

C24_CountedOnSuccess == [][HandlerCountsOnSuccess /\ ManagerCountsOnSuccess]_vars


(***************************************************************************)
(* C25: the scale-up entrance animation does not block the synthesis:      *)
(* createObject and legacyProceduralGeneration complete without waiting    *)
(* for an animation frame.  The synthesis is never suspended on the        *)
(* animation, and an animation frame changes the progress of the           *)
(* animation only, not the position of the synthesis.                      *)
(***************************************************************************)
WaitsForFrame == lgPc = "animating"

C25_AnimationCosmetic ==
    /\ []~WaitsForFrame
    /\ [][frames' # frames => UNCHANGED <<lgPc, lgIndex>>]_vars


(***************************************************************************)
(* C26: a new generation supersedes the displayed result.  After any       *)
(* sequence of generations through generateProcedural and                  *)
(* generateWithUserToken the scene holds only the model of the latest      *)
(* generation, every generated object in the scene is tracked in           *)
(* this.objects, and every model that left the scene is disposed.          *)
(***************************************************************************)
SceneTracked == scene \subseteq Range(objects)

OnlyLatestShown == Cardinality(scene) <= 1

Superseded == {o \in 1..Len(heap) : o \notin scene /\ ~(ugPc = "procedural" /\ o = ugModel)}

C26_SupersededRemoved ==
    /\ SceneTracked
    /\ OnlyLatestShown
    /\ \A o \in Superseded : heap[o].res \in disposed


(***************************************************************************)
(* C27: a HuggingFaceService constructed with a non-null token has that    *)
(* token as apiToken once construction finishes and authorizes its         *)
(* requests with it; the token sources are consulted only when no token    *)
(* was provided.                                                           *)
(***************************************************************************)
C27_GivenTokenKept ==
    (services > 0 /\ givenToken # Null)
        => /\ apiToken = givenToken
           /\ ~consulted
           /\ authorization \in {"none", "Bearer " \o givenToken}

(***************************************************************************)
(* C30: after any sequence of setToken and removeToken calls, hasToken is  *)
(* true exactly when the stored token passes checkToken, and getToken      *)
(* returns a token exactly in that case.                                   *)
(***************************************************************************)
C30_HasTokenIsCheckToken ==
    /\ hasToken <=> checkToken(storedToken)
    /\ (getToken # Null) <=> checkToken(storedToken)

(***************************************************************************)
(* Failed loads                                                            *)
(***************************************************************************)
FailedFetches(file) ==
    {p \in 1..Len(promises) : promises[p].file = file /\ promises[p].state = "rejected"}

(* the fetches that fail in this step *)
FailingNow ==
    {p \in 1..Len(promises) : promises[p].state = "pending" /\ promises'[p].state = "rejected"}

(* the latest fetch issued for the file *)
LatestFetch(file) ==
    LET ps == {p \in 1..Len(promises) : promises[p].file = file}
    IN  CHOOSE p \in ps : \A q \in ps : q <= p

(* loadModel rejects for every caller of a failed fetch: none of them      *)
(* returns a model                                                         *)
CallersRejected ==
    \A c \in 1..Len(loadCalls) :
        (loadCalls[c].promise # NoPromise /\ promises[loadCalls[c].promise].state = "rejected")
            => /\ loadCalls[c].pc \in {"awaiting", "threw"}
               /\ loadCalls[c].result = NoModel

(* a failing fetch adds nothing to modelCache and leaves the file without  *)
(* a loadingPromises entry                                                 *)
FailureCachesNothing ==
    \A p \in FailingNow :
        /\ UNCHANGED glbModelCache
        /\ promises'[p].model = NoModel
        /\ ~IsLoading(loadingPromises', promises[p].file)

(* after the failing step the file has no entry in either Map *)
FailureLeavesNoEntry ==
    \A p \in FailingNow :
        /\ ~IsCached(glbModelCache', promises[p].file)
        /\ ~IsLoading(loadingPromises', promises[p].file)

(* a loadModel call that arrives for a file whose latest fetch failed      *)
(* issues a new fetch                                                      *)
NextCallRefetches ==
    Len(loadCalls') = Len(loadCalls) + 1 =>
        LET c == loadCalls'[Len(loadCalls')]
        IN  (FailedFetches(c.file) # {} /\ LatestFetch(c.file) \in FailedFetches(c.file))
                => /\ Len(promises') = Len(promises) + 1
                   /\ c.path = "fetch"

(* C28: a failed asset load is not cached: when the fetch of a file fails, *)
(* loadModel rejects for every caller awaiting that fetch, the file has no *)
(* entry in modelCache or loadingPromises afterwards, and the next         *)
(* loadModel call for that file issues a new fetch.                        *)
C28_FailedLoadNotCached ==
    /\ []CallersRejected
    /\ [][FailureCachesNothing /\ FailureLeavesNoEntry /\ NextCallRefetches]_vars

(* a fetch failed, the call that issued it and a call that awaited it have *)
(* both thrown, and a later call for the file has issued a new fetch       *)
C28_Witness ==
    \E p \in 1..Len(promises) : \E a, b, c \in 1..Len(loadCalls) :
        /\ promises[p].state = "rejected"
        /\ loadCalls[a].promise = p /\ loadCalls[a].path = "fetch" /\ loadCalls[a].pc = "threw"
        /\ loadCalls[b].promise = p /\ loadCalls[b].path = "wait" /\ loadCalls[b].pc = "threw"
        /\ loadCalls[c].file = promises[p].file
        /\ loadCalls[c].path = "fetch"
        /\ loadCalls[c].promise > p
        /\ ~IsCached(glbModelCache, promises[p].file)

(***************************************************************************)
(* C29: clearCache is not undone by a load that was in flight when it was  *)
(* called: when such a load completes after the clear it does not insert   *)
(* its model into modelCache, so after clearCache the cache holds only     *)
(* models whose fetch started after the clear.                             *)
(***************************************************************************)
C29_ClearNotUndone ==
    \A file \in AssetFiles :
        IsCached(glbModelCache, file) =>
            \A p \in clearedLoads : promises[p].model # glbModelCache[file]

====
